---- MODULE Spec2Model ----
(***************************************************************************)
(* Parcel ingestion of citizenbob/land-estimator.                          *)
(*                                                                         *)
(* The repository holds several copies of the same batch job.  Three of    *)
(* them are modelled, and the variable impl says which one is running:     *)
(*   "data"     src/data/injest_shapes.py          (script, local files)   *)
(*   "storage"  src/config/scripts/injest_shapes.py (script, fetched files)*)
(*   "pipeline" src/config/scripts/ingest_shapes.py (ShapefileProcessor    *)
(*              driven by IngestPipeline)                                  *)
(* Strings are TLA+ strings; the text functions work on their characters.  *)
(***************************************************************************)
EXTENDS Integers, Sequences, FiniteSets, TLC

VARIABLES
    impl,           \* the copy of the program that runs
    pc,             \* control position of the run
    files,          \* per region: which source files exist at region start
    layer,          \* per region: CRS declared by the layer, sidecar .prj, coordinate range
    gdf_len,        \* per region: len(gdf), the rows loaded for the region
    idx,            \* per region: rows the loop has finished with
    last_row,       \* the row of the latest loop iteration and its region
    results,        \* per region: the list of ParcelRecords returned
    geometry_data,  \* per region: parcel_id -> ParcelGeometry (a sequence of pairs)
    address_stats,  \* the ProcessingStats counters
    anomaly_log,    \* the AnomalyRecords appended by log_address_issue
    console,        \* messages printed about CRS handling and missing files
    crs_used,       \* per region: the input CRS the geometry was read with
    attempted,      \* the regions whose processing function was entered
    row_error,      \* exceptions raised inside a row iteration
    errors,         \* IngestPipeline.stats["errors"]
    unified,        \* the records handed to the index builder at the end
    addr_in,        \* input of the standardize_address round trip
    addr_out,       \* outputs of the first and second application
    batch,          \* a table whose rows are processed in two orders
    order_runs,     \* what the row loop left behind for each order so far
    runs,           \* how often the pipeline object has been run
    index_file,     \* the address-index file on disk, "none" before it is written
    validation,     \* what validate_address_index_file returned for index_file
    args,           \* the arguments of a call of one of the pure functions
    ret,            \* the values that call returned
    calls,          \* the methods run_intelligent_pipeline has called, in order
    cdn             \* the blobs in the store with the prefix cdn/

vars == <<impl, pc, files, layer, gdf_len, idx, last_row, results, geometry_data,
          address_stats, anomaly_log, console, crs_used, attempted,
          row_error, errors, unified, addr_in, addr_out,
          batch, order_runs, runs, index_file, validation, args, ret, calls, cdn>>

\* the variables no step of a single run of the batch job changes
study_vars == <<batch, order_runs, runs, index_file, validation, args, ret, calls, cdn>>

(***************************************************************************)
(* Bounds of the model.                                                    *)
(***************************************************************************)
MaxRows == 2

(***************************************************************************)
(* Characters and Python str methods.                                      *)
(***************************************************************************)
Chars(s) == [i \in 1..Len(s) |-> SubSeq(s, i, i)]

RECURSIVE Str(_)
Str(cs) ==
    IF cs = <<>> THEN ""
    ELSE IF Len(cs) = 1 THEN cs[1]
    ELSE Str(SubSeq(cs, 1, Len(cs) \div 2)) \o Str(SubSeq(cs, (Len(cs) \div 2) + 1, Len(cs)))

Alphabet ==
    [lower |-> Chars("abcdefghijklmnopqrstuvwxyz"),
     upper |-> Chars("ABCDEFGHIJKLMNOPQRSTUVWXYZ"),
     digit |-> Chars("0123456789")]

\* the position of a character in an alphabet
IndexIn(alphabet, c) == CHOOSE i \in 1..Len(alphabet) : alphabet[i] = c

\* str.upper() and str.lower() of one character
Recase(c, from, to) ==
    IF \E i \in 1..Len(from) : from[i] = c THEN to[IndexIn(from, c)] ELSE c

\* the character sets behind \d, \s, [A-Za-z], [A-Z], [.,] and \w
CharClass ==
    [digit |-> {Alphabet.digit[i] : i \in 1..10},
     space |-> {" "},
     alpha |-> {Alphabet.lower[i] : i \in 1..26} \cup {Alphabet.upper[i] : i \in 1..26},
     upper |-> {Alphabet.upper[i] : i \in 1..26},
     dotcomma |-> {".", ","},
     word |-> {Alphabet.lower[i] : i \in 1..26} \cup {Alphabet.upper[i] : i \in 1..26}
              \cup {Alphabet.digit[i] : i \in 1..10} \cup {"_"}]

\* whether character ch belongs to c: a class name, "any", or a character
CharIn(ch, c) ==
    c = "any" \/ ch \in (IF c \in DOMAIN CharClass THEN CharClass[c] ELSE {c})

upper(cs) == [i \in 1..Len(cs) |-> Recase(cs[i], Alphabet.lower, Alphabet.upper)]

lower(cs) == [i \in 1..Len(cs) |-> Recase(cs[i], Alphabet.upper, Alphabet.lower)]

\* str.title(): a letter is upper-cased when the character before it is not
\* a letter, lower-cased otherwise
title(cs) ==
    [i \in 1..Len(cs) |->
        IF \E k \in {i - 1} : k >= 1 /\ CharIn(cs[k], "alpha")
        THEN lower(<<cs[i]>>)[1] ELSE upper(<<cs[i]>>)[1]]

RECURSIVE lstrip(_)
lstrip(cs) == IF cs # <<>> /\ Head(cs) = " " THEN lstrip(Tail(cs)) ELSE cs

RECURSIVE rstrip_chars(_, _)
rstrip_chars(cs, set) ==
    IF cs # <<>> /\ cs[Len(cs)] \in set
    THEN rstrip_chars(SubSeq(cs, 1, Len(cs) - 1), set)
    ELSE cs

strip(cs) == rstrip_chars(lstrip(cs), {" "})

\* str.split(sep): empty fields are kept
RECURSIVE split(_, _)
split(cs, sep) ==
    LET at == {i \in 1..Len(cs) : cs[i] = sep}
    IN  IF at = {} THEN <<cs>>
        ELSE LET k == CHOOSE i \in at : \A j \in at : i <= j
             IN  <<SubSeq(cs, 1, k - 1)>> \o split(SubSeq(cs, k + 1, Len(cs)), sep)

\* str.split(): split on runs of whitespace, no empty fields
split_ws(cs) == SelectSeq(split(cs, " "), LAMBDA w : w # <<>>)

\* " ".join(words) and the like
RECURSIVE join(_, _)
join(words, sep) ==
    IF words = <<>> THEN <<>>
    ELSE IF Len(words) = 1 THEN words[1]
    ELSE words[1] \o sep \o join(Tail(words), sep)

\* str.replace(old, new) for a one- or two-character old
RECURSIVE replace(_, _, _)
replace(cs, old, new) ==
    LET at == {i \in 1..(Len(cs) - Len(old) + 1) : SubSeq(cs, i, i + Len(old) - 1) = old}
    IN  IF at = {} THEN cs
        ELSE LET k == CHOOSE i \in at : \A j \in at : i <= j
             IN  SubSeq(cs, 1, k - 1) \o new
                 \o replace(SubSeq(cs, k + Len(old), Len(cs)), old, new)

\* int(digits) and the decimal rendering of f"{num}"
RECURSIVE int(_)
int(ds) ==
    IF ds = <<>> THEN 0
    ELSE 10 * int(SubSeq(ds, 1, Len(ds) - 1)) + (IndexIn(Alphabet.digit, ds[Len(ds)]) - 1)

RECURSIVE format_int(_)
format_int(n) ==
    IF n < 10 THEN <<Alphabet.digit[n + 1]>>
    ELSE format_int(n \div 10) \o <<Alphabet.digit[(n % 10) + 1]>>

(***************************************************************************)
(* The part of Python's re module the program uses.  A pattern is a        *)
(* sequence of elements [c, q]: c is a character or a class name, and q    *)
(* is "1" (once), "?", "*", "+", "b" (the word boundary \b) or "la" (the   *)
(* lookahead (?=c)).                                                       *)
(***************************************************************************)
Re(c, q) == [c |-> c, q |-> q]

\* a literal text, and c{n}
Lit(s) == [i \in 1..Len(s) |-> Re(SubSeq(s, i, i), "1")]
Times(c, n) == [i \in 1..n |-> Re(c, "1")]

\* the positions right after a match of pat that starts at position i; here
\* says whether the character at i belongs to the first element of pat.
\* At a \b exactly one of the characters around i is a word character.
RECURSIVE MatchEnds(_, _, _)
RECURSIVE MatchElement(_, _, _, _, _)
MatchElement(u, i, pat, q, here) ==
    CASE q = "b"  -> IF Cardinality({k \in {i - 1, i} :
                                        k >= 1 /\ k <= Len(u) /\ CharIn(u[k], "word")}) = 1
                     THEN MatchEnds(u, i, Tail(pat)) ELSE {}
      [] q = "la" -> IF here THEN MatchEnds(u, i, Tail(pat)) ELSE {}
      [] q = "1"  -> IF here THEN MatchEnds(u, i + 1, Tail(pat)) ELSE {}
      [] q = "?"  -> MatchEnds(u, i, Tail(pat))
                     \cup (IF here THEN MatchEnds(u, i + 1, Tail(pat)) ELSE {})
      [] q = "*"  -> MatchEnds(u, i, Tail(pat))
                     \cup (IF here THEN MatchEnds(u, i + 1, pat) ELSE {})
      [] q = "+"  -> IF here THEN MatchEnds(u, i + 1, <<Re(Head(pat).c, "*")>> \o Tail(pat))
                     ELSE {}

MatchEnds(u, i, pat) ==
    IF pat = <<>> THEN {i}
    ELSE MatchElement(u, i, pat, Head(pat).q, i <= Len(u) /\ CharIn(u[i], Head(pat).c))

SetMax(S) == CHOOSE x \in S : \A y \in S : y <= x
SetMin(S) == CHOOSE x \in S : \A y \in S : x <= y

re_fullmatch(pat, u) == (Len(u) + 1) \in MatchEnds(u, 1, pat)

re_search(pat, u) == \E i \in 1..(Len(u) + 1) : MatchEnds(u, i, pat) # {}

\* re.sub for patterns that cannot match the empty string: leftmost match,
\* greedy quantifiers
RECURSIVE re_sub_from(_, _, _, _)
RECURSIVE re_sub_at(_, _, _, _, _)
\* starts: the positions from i on where a non-empty match begins; the text
\* before the first of them is copied, the longest match there is replaced
re_sub_at(pat, repl, u, i, starts) ==
    IF starts = {} THEN SubSeq(u, i, Len(u))
    ELSE SubSeq(u, i, SetMin(starts) - 1) \o repl
         \o re_sub_from(pat, repl, u, SetMax(MatchEnds(u, SetMin(starts), pat) \ {SetMin(starts)}))

re_sub_from(pat, repl, u, i) ==
    IF i > Len(u) THEN <<>>
    ELSE re_sub_at(pat, repl, u, i, {j \in i..Len(u) : MatchEnds(u, j, pat) \ {j} # {}})

re_sub(pat, repl, u) == re_sub_from(pat, repl, u, 1)

(***************************************************************************)
(* Address functions of the two scripts ("data" and "storage" hold the     *)
(* same text).  In these files the patterns written r'\\s+' and the like   *)
(* hold a doubled backslash: they match a literal backslash followed by    *)
(* the letter s, not whitespace.                                           *)
(***************************************************************************)
street_type_map ==
    [STREET |-> "St.", ST |-> "St.", STR |-> "St.", STRT |-> "St.",
     AVENUE |-> "Ave.", AVE |-> "Ave.", AV |-> "Ave.",
     ROAD |-> "Rd.", RD |-> "Rd.",
     DRIVE |-> "Dr.", DR |-> "Dr.",
     LANE |-> "Ln.", LN |-> "Ln.",
     COURT |-> "Ct.", CT |-> "Ct.",
     BOULEVARD |-> "Blvd.", BLVD |-> "Blvd.", BL |-> "Blvd.",
     PARKWAY |-> "Pkwy.", PKWY |-> "Pkwy.", PKY |-> "Pkwy.", PARKWY |-> "Pkwy.",
     CIRCLE |-> "Cir.", CIR |-> "Cir.", CRCL |-> "Cir.",
     TERRACE |-> "Ter.", TER |-> "Ter.", TERR |-> "Ter.",
     PLACE |-> "Pl.", PL |-> "Pl.",
     SQUARE |-> "Sq.", SQ |-> "Sq.",
     TRAIL |-> "Trl.", TRL |-> "Trl.", TR |-> "Trl.",
     WAY |-> "Way",
     ALLEY |-> "Aly.", ALY |-> "Aly.", ALLY |-> "Aly.",
     HIGHWAY |-> "Hwy.", HWY |-> "Hwy.",
     EXPRESSWAY |-> "Expy.", EXPW |-> "Expy.", EXPY |-> "Expy.",
     FREEWAY |-> "Fwy.", FWY |-> "Fwy.",
     CAUSEWAY |-> "Cswy.", CSWY |-> "Cswy.",
     POINT |-> "Pt.", PT |-> "Pt.",
     HEIGHTS |-> "Hts.", HTS |-> "Hts.",
     ESTATES |-> "Est.", EST |-> "Est.",
     PARK |-> "Park",
     PLAZA |-> "Plz.", PLZ |-> "Plz.",
     JUNCTION |-> "Jct.", JCT |-> "Jct.",
     CROSSING |-> "Xing.", XING |-> "Xing.",
     LOOP |-> "Loop"]

short_dir_map ==
    [NORTH |-> "N", SOUTH |-> "S", EAST |-> "E", WEST |-> "W",
     NORTHEAST |-> "NE", NORTHWEST |-> "NW", SOUTHEAST |-> "SE", SOUTHWEST |-> "SW"]

directionals == {"N", "S", "E", "W", "NE", "NW", "SE", "SW"} \cup DOMAIN short_dir_map


\* re.sub(r'^(\d+)\.0$', r'\1', word)
strip_dot_zero(w) ==
    IF re_fullmatch(<<Re("digit", "+")>> \o Lit(".0"), w) THEN SubSeq(w, 1, Len(w) - 2) ELSE w

\* the ordinal an integer is rendered with
ordinal(num) ==
    format_int(num)
    \o Chars(IF num \in {1, 2, 3} THEN <<"st", "nd", "rd">>[num]
             ELSE IF num % 10 \in {1, 2, 3} /\ num % 100 \notin {11, 12, 13}
                  THEN <<"st", "nd", "rd">>[num % 10]
                  ELSE "th")

is_ordinal_word(word) ==
    \E suf \in {"ST", "ND", "RD", "TH"} : re_fullmatch(<<Re("digit", "+")>> \o Lit(suf), word)

is_house_number(word) ==
    \E pat \in {<<Re("digit", "+"), Re("upper", "?")>>,
                <<Re("upper", "?"), Re("digit", "+")>>,
                <<Re("digit", "+"), Re("-", "1"), Re("digit", "+")>>,
                <<Re("digit", "+"), Re("/", "1"), Re("digit", "+")>>} : re_fullmatch(pat, word)

\* one iteration of the loop over street_words: word_clean is word_raw
\* without a trailing ".0", word is word_raw.upper().rstrip('.,') and w is
\* word as a key of the tables.  An ordinal is re-rendered, and "1ST"
\* gets " St." unless a street type follows; a directional keeps its text
\* unless short_dir_map abbreviates it.
street_word(word_clean, word, w, next_word_is_street_type) ==
    IF is_ordinal_word(word)
    THEN ordinal(int(SubSeq(word, 1, Len(word) - 2)))
         \o (IF SubSeq(word, Len(word) - 1, Len(word)) = Chars("ST")
                /\ ~next_word_is_street_type
             THEN Chars(" St.") ELSE <<>>)
    ELSE IF w \in directionals
    THEN IF w \in DOMAIN short_dir_map THEN Chars(short_dir_map[w]) ELSE word
    ELSE IF w \in DOMAIN street_type_map
    THEN Chars(street_type_map[w])
    ELSE IF is_house_number(word)
    THEN word_clean
    ELSE title(word_clean)

clean_word(word_raw) == rstrip_chars(upper(word_raw), {".", ","})

standardize_street_word(street_words, i) ==
    street_word(strip_dot_zero(street_words[i]),
                clean_word(street_words[i]),
                Str(clean_word(street_words[i])),
                \E k \in {i + 1} : /\ k <= Len(street_words)
                                   /\ Str(clean_word(street_words[k])) \in DOMAIN street_type_map)

\* re.sub(r'^(\d+)\.0\b', r'\1', street)
strip_leading_dot_zero(street) ==
    LET ends == MatchEnds(street, 1, <<Re("digit", "+")>> \o Lit(".0") \o <<Re("", "b")>>)
    IN  IF ends = {} THEN street
        ELSE SubSeq(street, 1, SetMax(ends) - 3) \o SubSeq(street, SetMax(ends), Len(street))

city_names ==
    ("ST LOUIS" :> "St. Louis") @@ ("SAINT LOUIS" :> "St. Louis")
    @@ ("ST LOUIS COUNTY" :> "St. Louis County") @@ ("SAINT LOUIS COUNTY" :> "St. Louis County")
    @@ ("UNINCORPORATED" :> "St. Louis County (Unincorporated)")

standardize_city(city_part_raw) ==
    IF Str(upper(city_part_raw)) \in DOMAIN city_names
    THEN Chars(city_names[Str(upper(city_part_raw))])
    ELSE title(city_part_raw)

\* \d{5}(?:-\d{4})? as its two alternatives
zip_patterns == {Times("digit", 5), Times("digit", 5) \o Lit("-") \o Times("digit", 4)}

\* the groups of a match of r"\b([A-Za-z]{2})\s+(\d{5}(?:-\d{4})?)\b\s*$"
\* that starts at one of starts, or found = FALSE.  The match ends at the
\* end of part, so group 2 is what follows the state without the blanks
\* around it.
state_zip_groups(part, starts) ==
    IF starts = {} THEN [found |-> FALSE, state |-> <<>>, zip |-> <<>>]
    ELSE [found |-> TRUE,
          state |-> SubSeq(part, SetMin(starts), SetMin(starts) + 1),
          zip |-> strip(SubSeq(part, SetMin(starts) + 2, Len(part)))]

\* re.search(r"\b([A-Za-z]{2})\s+(\d{5}(?:-\d{4})?)\b\s*$", part)
state_zip_match(part) ==
    state_zip_groups(part,
        {i \in 1..Len(part) :
            \E z \in zip_patterns :
                (Len(part) + 1) \in
                    MatchEnds(part, i, <<Re("", "b"), Re("alpha", "1"), Re("alpha", "1"),
                                         Re("space", "+")>>
                                       \o z \o <<Re("", "b"), Re("space", "*")>>)})

\* the pattern applied to the text as it was given, blanks included
fullmatch_zip_as_given(zip_code) ==
    /\ zip_code # ""
    /\ \E pat \in zip_patterns : re_fullmatch(pat, Chars(zip_code))

is_valid_zip(zip_code) ==
    /\ zip_code # ""
    /\ \E pat \in zip_patterns : re_fullmatch(pat, strip(Chars(zip_code)))

\* the substitutions whose pattern is written with doubled backslashes:
\* r'\\s+' and r'\\s*\\,\\s*'
sub_backslash_s(cs) == re_sub(<<Re("\\", "1"), Re("s", "+")>>, <<" ">>, cs)

sub_backslash_comma(cs) ==
    re_sub(<<Re("\\", "1"), Re("s", "*"), Re("\\", "1"), Re(",", "1"),
             Re("\\", "1"), Re("s", "*")>>, Chars(", "), cs)

\* the parts list of standardize_address:
\* [p.strip() for p in address_str.split(',') if p.strip()]
address_parts(full_address_str) ==
    LET address_str ==
            sub_backslash_comma(
                replace(replace(re_sub(<<Re("dotcomma", "+"), Re("dotcomma", "la")>>, <<",">>,
                                       sub_backslash_s(strip(Chars(full_address_str)))),
                                Chars(" ;"), <<",">>),
                        <<";">>, <<",">>))
    IN  SelectSeq([k \in 1..Len(split(address_str, ",")) |-> strip(split(address_str, ",")[k])],
                  LAMBDA p : p # <<>>)

\* final_address after the final cleanup; the last substitution is
\* r'\\s*;\\s*'
final_address(street, city, state, zip) ==
    Str(re_sub(<<Re("\\", "1"), Re("s", "*"), Re(";", "1"), Re("\\", "1"), Re("s", "*")>>,
               Chars(", "),
               sub_backslash_comma(strip(sub_backslash_s(
                   street \o Chars(", ") \o city \o Chars(", ") \o state \o <<" ">>
                   \o Chars(zip))))))

\* standardize_address from the parts list on, m being the match of the
\* state-and-ZIP part; logs_zip says whether the call appends its record to
\* invalid_zip.log
standardized_parts(parts, m, default_city, default_state, default_zip) ==
    [address |->
        final_address(
            strip_leading_dot_zero(
                join([k \in 1..Len(split_ws(parts[1])) |->
                          standardize_street_word(split_ws(parts[1]), k)], <<" ">>)),
            standardize_city(IF Len(parts) > 1 THEN parts[2] ELSE Chars(default_city)),
            IF m.found THEN upper(m.state) ELSE Chars(default_state),
            IF is_valid_zip(IF m.found THEN Str(m.zip) ELSE default_zip)
            THEN (IF m.found THEN Str(m.zip) ELSE default_zip)
            ELSE default_zip),
     logs_zip |-> ~is_valid_zip(IF m.found THEN Str(m.zip) ELSE default_zip)]

standardize_parts(parts, default_city, default_state, default_zip) ==
    IF parts = <<>> THEN [address |-> "", logs_zip |-> FALSE]
    ELSE standardized_parts(parts,
                            state_zip_match(IF Len(parts) > 2 THEN parts[3]
                                            ELSE Chars(default_state) \o <<" ">>
                                                 \o Chars(default_zip)),
                            default_city, default_state, default_zip)

\* standardize_address with its effect on invalid_zip.log
standardize_address_call(full_address_str, default_city, default_state, default_zip) ==
    standardize_parts(address_parts(full_address_str), default_city, default_state, default_zip)

standardize_address(full_address_str, default_city, default_state, default_zip) ==
    standardize_address_call(full_address_str, default_city, default_state, default_zip).address

\* is_po_box of the scripts: every pattern starts with a literal backslash
\* and a lower-case b, and is searched in address.upper()
is_po_box(address) ==
    \E pattern \in
        {<<Re("\\", "1")>> \o Lit("bP") \o <<Re("\\", "1"), Re("any", "?")>> \o Lit("O")
             \o <<Re("\\", "1"), Re("any", "?"), Re("\\", "1"), Re("s", "+")>> \o Lit("BOX")
             \o <<Re("\\", "1")>> \o Lit("b"),
         <<Re("\\", "1")>> \o Lit("bPO") \o <<Re("\\", "1"), Re("s", "+")>> \o Lit("BOX")
             \o <<Re("\\", "1")>> \o Lit("b"),
         <<Re("\\", "1")>> \o Lit("bBOX")
             \o <<Re("\\", "1"), Re("s", "+"), Re("\\", "1"), Re("d", "+")>>,
         <<Re("\\", "1")>> \o Lit("bPMB")
             \o <<Re("\\", "1"), Re("s", "+"), Re("\\", "1"), Re("d", "+")>>} :
        re_search(pattern, upper(Chars(address)))

(***************************************************************************)
(* Address functions of ShapefileProcessor ("pipeline"): the patterns are  *)
(* written with single backslashes, the street-type table is shorter, and  *)
(* there is no ordinal, directional or house-number rule.                  *)
(***************************************************************************)
street_types ==
    [STREET |-> "St.", ST |-> "St.", AVENUE |-> "Ave.", AVE |-> "Ave.",
     ROAD |-> "Rd.", RD |-> "Rd.", DRIVE |-> "Dr.", DR |-> "Dr.",
     LANE |-> "Ln.", LN |-> "Ln.", COURT |-> "Ct.", CT |-> "Ct.",
     BOULEVARD |-> "Blvd.", BLVD |-> "Blvd."]

ShapefileProcessor_address_parts(full_address_str) ==
    LET address_str ==
            re_sub(<<Re("space", "*"), Re(",", "1"), Re("space", "*")>>, Chars(", "),
                replace(replace(re_sub(<<Re("dotcomma", "+"), Re("dotcomma", "la")>>, <<",">>,
                                       re_sub(<<Re("space", "+")>>, <<" ">>,
                                              strip(Chars(full_address_str)))),
                                Chars(" ;"), <<",">>),
                        <<";">>, <<",">>))
    IN  SelectSeq([k \in 1..Len(split(address_str, ",")) |-> strip(split(address_str, ",")[k])],
                  LAMBDA p : p # <<>>)

\* final_address before the final cleanup: the street words, the city, the
\* state and the ZIP as parsed (no validation)
ShapefileProcessor_final_address(parts, m, default_city, default_state, default_zip) ==
    join([k \in 1..Len(split_ws(parts[1])) |->
              IF Str(clean_word(split_ws(parts[1])[k])) \in DOMAIN street_types
              THEN Chars(street_types[Str(clean_word(split_ws(parts[1])[k]))])
              ELSE title(split_ws(parts[1])[k])],
         <<" ">>)
    \o Chars(", ")
    \o (IF Str(upper(IF Len(parts) > 1 THEN parts[2] ELSE Chars(default_city)))
              \in {"ST LOUIS", "SAINT LOUIS"}
        THEN Chars("St. Louis")
        ELSE title(IF Len(parts) > 1 THEN parts[2] ELSE Chars(default_city)))
    \o Chars(", ")
    \o (IF m.found THEN upper(m.state) ELSE Chars(default_state))
    \o <<" ">> \o (IF m.found THEN m.zip ELSE Chars(default_zip))

ShapefileProcessor_standardize_parts(parts, default_city, default_state, default_zip) ==
    IF parts = <<>> THEN ""
    ELSE Str(strip(re_sub(<<Re("space", "+")>>, <<" ">>,
             ShapefileProcessor_final_address(
                 parts,
                 state_zip_match(IF Len(parts) > 2 THEN parts[3]
                                 ELSE Chars(default_state) \o <<" ">> \o Chars(default_zip)),
                 default_city, default_state, default_zip))))

ShapefileProcessor_standardize_address(full_address_str, default_city, default_state, default_zip) ==
    ShapefileProcessor_standardize_parts(ShapefileProcessor_address_parts(full_address_str),
                                         default_city, default_state, default_zip)

ShapefileProcessor_is_po_box(address) ==
    \E pattern \in
        {<<Re("", "b"), Re("P", "1"), Re(".", "?"), Re("O", "1"), Re(".", "?"), Re("space", "+")>>
             \o Lit("BOX") \o <<Re("", "b")>>,
         <<Re("", "b")>> \o Lit("PO") \o <<Re("space", "+")>> \o Lit("BOX") \o <<Re("", "b")>>,
         <<Re("", "b")>> \o Lit("BOX") \o <<Re("space", "+"), Re("digit", "+")>>,
         <<Re("", "b")>> \o Lit("PMB") \o <<Re("space", "+"), Re("digit", "+")>>} :
        re_search(pattern, upper(Chars(address)))


(***************************************************************************)
(* Raw attribute values.  A cell of the joined table is a tagged value:    *)
(* a string, an integer, a float with an integral value, NaN (a cell the   *)
(* left merge could not fill) or None.                                     *)
(***************************************************************************)
\* Py("str", "x"), Py("int", 5), Py("float", 5), Py("nan", 0), Py("none", 0)
Py(t, x) ==
    [t |-> t, s |-> IF t = "str" THEN x ELSE "", n |-> IF t \in {"int", "float"} THEN x ELSE 0]

\* str(value)
py_str(value) ==
    CASE value.t = "str"   -> value.s
      [] value.t = "int"   -> Str(format_int(value.n))
      [] value.t = "float" -> Str(format_int(value.n)) \o ".0"
      [] value.t = "nan"   -> "nan"
      [] value.t = "none"  -> "None"


\* str(value).strip()
str_strip(value) == Str(strip(Chars(py_str(value))))

\* safe_to_numeric: None and unparsable text give the default, NaN stays NaN
safe_to_numeric(value, default) ==
    CASE value.t = "none"  -> [nan |-> FALSE, v |-> default]
      [] value.t = "nan"   -> [nan |-> TRUE, v |-> 0]
      [] value.t = "str"   -> IF re_fullmatch(<<Re("digit", "+")>>, Chars(value.s))
                              THEN [nan |-> FALSE, v |-> int(Chars(value.s))]
                              ELSE [nan |-> FALSE, v |-> default]
      [] OTHER             -> [nan |-> FALSE, v |-> value.n]

FIELD_MAPPINGS ==
    [city |->
        [assessment |-> [total |-> "ASMTTOTAL", land |-> "ASMTLAND", improvement |-> "ASMTIMPROV"],
         building |-> [area |-> "BDG1AREA", year |-> "BDG1YEAR"],
         owner |-> [name |-> "OWNERNAME", name2 |-> "OWNERNAME2", address |-> "OWNERADDR",
                    city |-> "OWNERCITY", state |-> "OWNERSTATE", zip |-> "OWNERZIP"],
         address |-> [number |-> "LowAddrNum", street_primary |-> "SITEADDR", zip |-> "ZIP"],
         parcel_id |-> [column |-> "HANDLE"]],
     county |->
        [assessment |-> [total |-> "TOTAPVAL", land |-> "LAND_VAL", improvement |-> "IMPROV_VAL"],
         building |-> [area |-> "RESQFT", year |-> "YEAR_BUILT"],
         owner |-> [name |-> "OWNER_NAME", tenure |-> "TENURE", state |-> "OWN_STATE"],
         address |-> [full |-> "PROP_ADD", number |-> "PROP_ADRNU", zip |-> "PROP_ZIP",
                      municipality |-> "MUNICIPALI"],
         property_class |-> [column |-> "PROPCLASS"],
         parcel_id |-> [column |-> "LOCATOR"]]]

\* get_field_value: a missing region, category or field (KeyError) and a
\* category that maps straight to a column name (TypeError) give the default
mapped_field_value(row, mappings, region, category, field, default) ==
    IF region \notin DOMAIN mappings THEN default
    ELSE IF category \notin DOMAIN mappings[region] THEN default
    ELSE IF "column" \in DOMAIN mappings[region][category] THEN default
    ELSE IF field \notin DOMAIN mappings[region][category] THEN default
    ELSE IF mappings[region][category][field] \in DOMAIN row
         THEN row[mappings[region][category][field]] ELSE default

get_field_value(row, region, category, field, default) ==
    mapped_field_value(row, FIELD_MAPPINGS, region, category, field, default)

(***************************************************************************)
(* Geometry.  A point is a place on the ground with its coordinates in     *)
(* EPSG:26915 (UTM 15N, here in centimetres) and in EPSG:4326 (WGS84, here *)
(* in hundredths of a degree); reprojection picks the other pair.  A       *)
(* geometry carries the CRS its numbers are in (epsg) and the crs          *)
(* attribute Python code can see on it ("none" on a bare shapely object).  *)
(***************************************************************************)
Place(ux, uy, lon, lat) == [e26915 |-> <<ux, uy>>, e4326 |-> <<lon, lat>>]

coords_of(pt, epsg) == IF epsg = 4326 THEN pt.e4326 ELSE pt.e26915

NullGeometry == [type |-> "null", coordinates |-> <<>>, bbox |-> <<>>]



geom_bounds(geometry) ==
    LET inring == UNION {{coords_of(geometry.rings[r][k], geometry.epsg) :
                          k \in 1..Len(geometry.rings[r])} : r \in 1..Len(geometry.rings)}
        xs == {c[1] : c \in inring}
        ys == {c[2] : c \in inring}
    IN  <<SetMin(xs), SetMin(ys), SetMax(xs), SetMax(ys)>>

\* extract_parcel_geometry (the three copies agree)
extract_parcel_geometry(geometry) ==
    IF geometry.geom_type = "None" \/ geometry.is_empty THEN NullGeometry
    ELSE LET geometry_wgs84 ==
                 IF geometry.crs # "none" /\ geometry.crs # "EPSG:4326"
                 THEN [geometry EXCEPT !.epsg = 4326] ELSE geometry
             rounded_coords ==
                 [r \in 1..Len(geometry_wgs84.rings) |->
                     [k \in 1..Len(geometry_wgs84.rings[r]) |->
                         coords_of(geometry_wgs84.rings[r][k], geometry_wgs84.epsg)]]
         IN  IF geometry_wgs84.geom_type \in {"Polygon", "MultiPolygon"}
             THEN [type |-> geometry_wgs84.geom_type,
                   coordinates |-> rounded_coords,
                   bbox |-> geom_bounds(geometry_wgs84)]
             ELSE NullGeometry

(***************************************************************************)
(* Numbers.  A number is [nan, v]; areas and scores are kept in hundredths *)
(* (v = 100 * value), money and years in whole units.  Comparisons with    *)
(* NaN are false, as in Python.                                            *)
(***************************************************************************)
Num(v) == [nan |-> FALSE, v |-> v]
NaN == [nan |-> TRUE, v |-> 0]

num_gt(a, b) == ~a.nan /\ ~b.nan /\ a.v > b.v
num_lt(a, b) == ~a.nan /\ ~b.nan /\ a.v < b.v
num_le(a, b) == ~a.nan /\ ~b.nan /\ a.v <= b.v
num_add(a, b) == IF a.nan \/ b.nan THEN NaN ELSE Num(a.v + b.v)
num_sub(a, b) == IF a.nan \/ b.nan THEN NaN ELSE Num(a.v - b.v)
\* a * p / q
num_scale(a, p, q) == IF a.nan THEN NaN ELSE Num((a.v * p) \div q)
\* the builtins max(a, b) and min(a, b): the first argument wins unless the
\* second compares strictly better
py_max(a, b) == IF num_gt(b, a) THEN b ELSE a
py_min(a, b) == IF num_lt(b, a) THEN b ELSE a



\* str.startswith over a tuple of prefixes
startswith(code, prefixes) ==
    \E prefix \in prefixes :
        Len(code) >= Len(prefix) /\ SubSeq(code, 1, Len(prefix)) = Chars(prefix)

classify_property(property_class_code, region) ==
    LET code == upper(strip(Chars(py_str(property_class_code))))
    IN  IF property_class_code.t = "none" THEN "unknown"
        ELSE IF region = "city"
        THEN IF startswith(code, {"A", "B"}) THEN "residential"
             ELSE IF startswith(code, {"C"}) THEN "commercial"
             ELSE IF startswith(code, {"D"}) THEN "industrial"
             ELSE IF startswith(code, {"E"}) THEN "exempt"
             ELSE IF startswith(code, {"F"}) THEN "agricultural"
             ELSE IF startswith(code, {"X"}) THEN "exempt"
             ELSE "other"
        ELSE IF region = "county"
        THEN IF code = <<"R">> \/ startswith(code, {"RES"}) THEN "residential"
             ELSE IF code = <<"C">> \/ startswith(code, {"COM"}) THEN "commercial"
             ELSE IF code = <<"I">> \/ startswith(code, {"IND"}) THEN "industrial"
             ELSE IF code = <<"A">> \/ startswith(code, {"AGR"}) THEN "agricultural"
             ELSE IF code = <<"E">> \/ startswith(code, {"EX"}) THEN "exempt"
             ELSE "other"
        ELSE "unknown"

\* calculate_enhanced_landscapable_area; land_area and building_sqft in
\* hundredths of a square foot, and so is the result.  The hardscape ratio
\* min(0.15 + building/20000, 0.25) is kept in thousandths.
calculate_enhanced_landscapable_area(land_area, building_sqft, property_type) ==
    IF num_le(land_area, Num(0)) THEN Num(0)
    ELSE LET hardscape_ratio ==
                 py_min(num_add(Num(150), num_scale(building_sqft, 1, 2000)), Num(250))
             hardscape0 ==
                 IF num_gt(building_sqft, Num(0))
                 THEN IF hardscape_ratio.nan THEN NaN
                      ELSE num_add(num_scale(building_sqft, hardscape_ratio.v, 1000), Num(30000))
                 ELSE num_scale(land_area, 5, 100)
             estimated_hardscape == py_min(hardscape0, num_scale(land_area, 6, 10))
             landscapable0 ==
                 py_max(Num(0), num_sub(num_sub(land_area, building_sqft), estimated_hardscape))
         IN  IF property_type = "commercial" THEN num_scale(landscapable0, 6, 10)
             ELSE IF property_type = "industrial" THEN num_scale(landscapable0, 3, 10)
             ELSE IF property_type = "residential" /\ num_gt(building_sqft, Num(0))
             THEN py_min(py_max(landscapable0, num_scale(building_sqft, 2, 10)),
                         num_scale(land_area, 9, 10))
             ELSE landscapable0

numeric_field(row, region, category, field) ==
    safe_to_numeric(get_field_value(row, region, category, field, Py("none", 0)), 0)

upper_field(row, region, category, field) ==
    Str(upper(Chars(py_str(get_field_value(row, region, category, field, Py("str", ""))))))

\* the points calculate_enhanced_affluence_score adds up, in hundredths,
\* before max(0.0, min(5.0, score))
affluence_points(region, total_assessment, land_assessment, improvement_assessment, building_sqft, building_year, land_area, owner_tenure, owner_state) ==
    (IF num_gt(total_assessment, Num(750000)) THEN 300
     ELSE IF num_gt(total_assessment, Num(500000)) THEN 250
     ELSE IF num_gt(total_assessment, Num(300000)) THEN 200
     ELSE IF num_gt(total_assessment, Num(150000)) THEN 100
     ELSE IF num_gt(total_assessment, Num(75000)) THEN 50
     ELSE 0)
    + (IF ~num_gt(building_sqft, Num(0)) THEN 0
       ELSE (IF num_gt(building_sqft, Num(400000)) THEN 150
             ELSE IF num_gt(building_sqft, Num(250000)) THEN 100
             ELSE IF num_gt(building_sqft, Num(150000)) THEN 50
             ELSE 0)
            + (IF num_gt(building_year, Num(2010)) THEN 50
               ELSE IF num_gt(building_year, Num(1990)) THEN 25
               ELSE 0))
    + (IF num_gt(land_area, Num(4356000)) THEN 150
       ELSE IF num_gt(land_area, Num(2178000)) THEN 100
       ELSE IF num_gt(land_area, Num(1000000)) THEN 50
       ELSE 0)
    + (IF num_gt(land_assessment, Num(0)) /\ num_gt(improvement_assessment, Num(0))
       THEN IF improvement_assessment.v > 5 * land_assessment.v THEN 100
            ELSE IF improvement_assessment.v > 2 * land_assessment.v THEN 50
            ELSE IF 2 * improvement_assessment.v < land_assessment.v
                    /\ num_gt(building_sqft, Num(0)) THEN -50
            ELSE 0
       ELSE 0)
    + (IF region = "county"
       THEN (IF owner_tenure = "OWNER" THEN 25 ELSE 0)
            + (IF owner_state # "" /\ owner_state # "MO" /\ Len(owner_state) = 2
               THEN -25 ELSE 0)
       ELSE 0)

\* the points of a row as they stand before "Normalize score to 0-5 range"
affluence_score_before_normalizing(row_data, region) ==
    affluence_points(region,
                     numeric_field(row_data, region, "assessment", "total"),
                     numeric_field(row_data, region, "assessment", "land"),
                     numeric_field(row_data, region, "assessment", "improvement"),
                     row_data.building_sqft,
                     numeric_field(row_data, region, "building", "year"),
                     row_data.landarea,
                     upper_field(row_data, region, "owner", "tenure"),
                     upper_field(row_data, region, "owner", "state"))

\* calculate_enhanced_affluence_score; the score is in hundredths
calculate_enhanced_affluence_score(row_data, region) ==
    py_max(Num(0), py_min(Num(500), Num(
        affluence_points(region,
                         numeric_field(row_data, region, "assessment", "total"),
                         numeric_field(row_data, region, "assessment", "land"),
                         numeric_field(row_data, region, "assessment", "improvement"),
                         row_data.building_sqft,
                         numeric_field(row_data, region, "building", "year"),
                         row_data.landarea,
                         upper_field(row_data, region, "owner", "tenure"),
                         upper_field(row_data, region, "owner", "state"))))).v

(***************************************************************************)
(* Rows of the joined tables.  The geometry of a row is what iterrows()    *)
(* hands out after the table was projected to EPSG:26915: a bare shapely   *)
(* object (no crs attribute), None for a null shape.  area is in square    *)
(* metres.                                                                 *)
(***************************************************************************)
ParcelPolygon ==
    [geom_type |-> "Polygon", is_empty |-> FALSE, crs |-> "none", epsg |-> 26915,
     rings |-> << <<Place(74000000, 427800000, -9020, 3863),
                    Place(74002000, 427800000, -9018, 3863),
                    Place(74002000, 427802000, -9018, 3865),
                    Place(74000000, 427800000, -9020, 3863)>> >>,
     centroid |-> Place(74001333, 427800667, -9019, 3864),
     area |-> Num(200)]

NoneGeometry ==
    [geom_type |-> "None", is_empty |-> FALSE, crs |-> "none", epsg |-> 26915,
     rings |-> <<>>, centroid |-> Place(0, 0, 0, 0), area |-> NaN]

EmptyPolygon ==
    [geom_type |-> "Polygon", is_empty |-> TRUE, crs |-> "none", epsg |-> 26915,
     rings |-> <<>>, centroid |-> Place(0, 0, 0, 0), area |-> Num(0)]

LineGeometry ==
    [geom_type |-> "LineString", is_empty |-> FALSE, crs |-> "none", epsg |-> 26915,
     rings |-> <<>>, centroid |-> Place(74001000, 427800000, -9019, 3863), area |-> Num(0)]

\* gdf["landarea"] = gdf.geometry.area * 10.7639, in hundredths of a square foot
landarea(geometry) == num_scale(geometry.area, 107639, 100)

CityRowOk ==
    [HANDLE |-> Py("str", "10"), SITEADDR |-> Py("str", "123 N MAIN ST"), ZIP |-> Py("int", 63101),
     BDG1AREA |-> Py("int", 1200), BDG1YEAR |-> Py("int", 1995), ASMTTOTAL |-> Py("int", 200000),
     ASMTLAND |-> Py("int", 50000), ASMTIMPROV |-> Py("int", 150000),
     OWNERNAME |-> Py("str", "SMITH JOHN"), geometry |-> ParcelPolygon]

CityRows ==
    {CityRowOk,
     \* a ZIP column read as float
     [CityRowOk EXCEPT !.HANDLE = Py("str", "11"), !.ZIP = Py("float", 63104), !.BDG1AREA = Py("int", 0)],
     \* a ZIP that is not five digits
     [CityRowOk EXCEPT !.HANDLE = Py("str", "12"), !.ZIP = Py("str", "6310")],
     \* no CSV row matched: SITEADDR and ZIP are NaN
     [CityRowOk EXCEPT !.HANDLE = Py("str", "13"), !.SITEADDR = Py("nan", 0), !.ZIP = Py("nan", 0)],
     \* a post-office box
     [CityRowOk EXCEPT !.HANDLE = Py("str", "14"), !.SITEADDR = Py("str", "PO BOX 12")],
     \* a null shape
     [CityRowOk EXCEPT !.HANDLE = Py("str", "15"), !.geometry = NoneGeometry],
     \* no DBF row matched: the assessment and building columns are NaN
     [CityRowOk EXCEPT !.HANDLE = Py("str", "16"), !.BDG1AREA = Py("nan", 0), !.BDG1YEAR = Py("nan", 0),
                       !.ASMTTOTAL = Py("nan", 0), !.ASMTLAND = Py("nan", 0), !.ASMTIMPROV = Py("nan", 0)],
     \* an empty parcel id
     [CityRowOk EXCEPT !.HANDLE = Py("str", "")],
     \* a hyphenated house-number range
     [CityRowOk EXCEPT !.HANDLE = Py("str", "18"), !.SITEADDR = Py("str", "100-102 OAK AVE")]}

CountyRowOk ==
    [LOCATOR |-> Py("str", "20"), PROP_ADD |-> Py("str", "5 OAK DR"), PROP_ADRNU |-> Py("int", 5),
     PROP_ZIP |-> Py("str", "63122"), MUNICIPALI |-> Py("str", "KIRKWOOD"),
     RESQFT |-> Py("int", 1800), YEAR_BUILT |-> Py("int", 2012), TOTAPVAL |-> Py("int", 320000),
     LAND_VAL |-> Py("int", 40000), IMPROV_VAL |-> Py("int", 280000),
     OWNER_NAME |-> Py("str", "DOE JANE"), TENURE |-> Py("str", "OWNER"), OWN_STATE |-> Py("str", "MO"),
     PROPCLASS |-> Py("str", "R"), geometry |-> ParcelPolygon]

CountyRows ==
    {CountyRowOk,
     \* a ZIP that is not five digits
     [CountyRowOk EXCEPT !.LOCATOR = Py("str", "21"), !.PROP_ZIP = Py("str", "6312")],
     \* no ZIP
     [CountyRowOk EXCEPT !.LOCATOR = Py("str", "22"), !.PROP_ZIP = Py("str", "")],
     \* no street address, house number present
     [CountyRowOk EXCEPT !.LOCATOR = Py("str", "23"), !.PROP_ADD = Py("none", 0)],
     \* no street address and no house number
     [CountyRowOk EXCEPT !.LOCATOR = Py("str", "24"), !.PROP_ADD = Py("str", ""), !.PROP_ADRNU = Py("str", "")],
     \* a post-office box
     [CountyRowOk EXCEPT !.LOCATOR = Py("str", "25"), !.PROP_ADD = Py("str", "P.O. BOX 7")],
     \* an empty shape
     [CountyRowOk EXCEPT !.LOCATOR = Py("str", "26"), !.geometry = EmptyPolygon],
     \* a shape that is not a polygon
     [CountyRowOk EXCEPT !.LOCATOR = Py("str", "27"), !.geometry = LineGeometry],
     \* an owner outside Missouri, a fractional house number
     [CountyRowOk EXCEPT !.LOCATOR = Py("str", "28"), !.PROP_ADD = Py("str", "12 1/2 ELM ST"),
                         !.OWN_STATE = Py("str", "IL"), !.TENURE = Py("str", "")],
     \* a null year
     [CountyRowOk EXCEPT !.LOCATOR = Py("str", "29"), !.YEAR_BUILT = Py("nan", 0)]}

\* row.get(column, default)
row_get(row, column, default) == IF column \in DOMAIN row THEN row[column] ELSE default

\* re.sub(r"\.0$", "", text)
strip_float_suffix(cs) ==
    IF Len(cs) >= 2 /\ SubSeq(cs, Len(cs) - 1, Len(cs)) = Chars(".0")
    THEN SubSeq(cs, 1, Len(cs) - 2) ELSE cs

\* a missing or placeholder address text
is_missing_text(text) == text = "" \/ Str(lower(Chars(text))) \in {"nan", "none", "null"}

(***************************************************************************)
(* What one iteration of a row loop does: the counters it increments, the  *)
(* AnomalyRecords it appends, the geometry_data entry it sets, the record  *)
(* it appends to results, and the exception that leaves the iteration.     *)
(***************************************************************************)
Iteration(counters, logs, geometry, record, raised) ==
    [counters |-> counters, logs |-> logs, geometry |-> geometry,
     record |-> record, raised |-> raised]

log_address_issue(log_file, record) == [log_file |-> log_file, record |-> record]

\* the building area of a row: a city row without one gets an estimate from
\* its improvement value
estimated_building_sqft(region, building_sqft, improvement_val, land_area) ==
    IF region = "city" /\ ~building_sqft.nan /\ building_sqft.v = 0
       /\ num_gt(improvement_val, Num(0)) /\ num_gt(land_area, Num(0))
    THEN py_min(improvement_val, num_scale(land_area, 7, 10))
    ELSE building_sqft

\* the metrics of a row: land area, building area, property type,
\* landscapable area, affluence score
metrics(row, region, land_area, building_sqft, property_type) ==
    [land_area |-> land_area,
     building_sqft |-> building_sqft,
     property_type |-> property_type,
     est_landscapable_area |->
         calculate_enhanced_landscapable_area(land_area, building_sqft, property_type),
     affluence |->
         calculate_enhanced_affluence_score(
             [landarea |-> land_area, building_sqft |-> building_sqft] @@ row, region)]

row_metrics(row, region) ==
    metrics(row, region, landarea(row.geometry),
            estimated_building_sqft(
                region, num_scale(numeric_field(row, region, "building", "area"), 100, 1),
                numeric_field(row, region, "assessment", "improvement"),
                landarea(row.geometry)),
            classify_property(get_field_value(row, region, "property_class", "None", Py("none", 0)),
                              region))

\* the record a row loop appends to results; m holds the metrics of the row
parcel_record(row, region, m, parcel_id, standardized_address, region_name, lat, lng, owner, source_file) ==
    [id |-> parcel_id,
     original_parcel_id |-> parcel_id,
     full_address |-> standardized_address,
     region |-> region_name,
     latitude |-> lat,
     longitude |-> lng,
     calc |-> [landarea_sqft |-> m.land_area,
               building_sqft |-> m.building_sqft,
               estimated_landscapable_area_sqft |-> m.est_landscapable_area,
               property_type |-> m.property_type,
               year_built |-> numeric_field(row, region, "building", "year").v],
     assessment |-> [total_value |-> numeric_field(row, region, "assessment", "total"),
                     land_value |-> numeric_field(row, region, "assessment", "land"),
                     improvement_value |->
                         numeric_field(row, region, "assessment", "improvement")],
     owner |-> owner,
     affluence_score |-> m.affluence,
     source_file |-> source_file]

ParcelRecord(row, region, parcel_id, standardized_address, region_name, lat, lng, owner, source_file) ==
    parcel_record(row, region, row_metrics(row, region), parcel_id, standardized_address,
                  region_name, lat, lng, owner, source_file)

\* the exception that stops an iteration after the address was accepted:
\* None has no centroid, and int() refuses NaN
record_exception(row, region) ==
    IF row.geometry.geom_type = "None" THEN "AttributeError"
    ELSE IF safe_to_numeric(get_field_value(row, region, "building", "year", Py("none", 0)), 0).nan
    THEN "ValueError"
    ELSE ""

\* round(centroid.y, 6) if centroid else 0, round(centroid.x, 6) if centroid else 0
centroid_lat_lng(geometry) ==
    IF geometry.is_empty THEN <<0, 0>>
    ELSE <<coords_of(geometry.centroid, geometry.epsg)[2],
           coords_of(geometry.centroid, geometry.epsg)[1]>>

\* geometry_data[parcel_id] = extract_parcel_geometry(row.geometry)
row_geometry(row, parcel_id) ==
    <<[id |-> parcel_id, geometry |-> extract_parcel_geometry(row.geometry)]>>

zip_counters(zip_ok) == IF zip_ok THEN <<>> ELSE <<"invalid_zip">>

\* the record standardize_address appends to invalid_zip.log
parsed_zip_log(original_full_address, std) ==
    IF std.logs_zip
    THEN <<log_address_issue("invalid_zip.log",
               [original_full_address |-> original_full_address,
                issue |-> "parsed_zip_invalid_or_missing_fallback_to_default"])>>
    ELSE <<>>

\* the end of an iteration whose address was accepted: the post-office-box
\* check, the valid counters, and the record unless building it raises
accepted_row(row, region, parcel_id, logs, zip_ok, po_box, record, raised) ==
    Iteration(zip_counters(zip_ok) \o (IF po_box THEN <<"po_box">> ELSE <<>>)
                  \o <<"valid_addresses", region \o "_records_valid">>,
              logs \o (IF po_box
                       THEN <<log_address_issue("po_box_addresses.log",
                                  [parcel_id |-> parcel_id, region |-> region,
                                   address |-> record.full_address])>>
                       ELSE <<>>),
              row_geometry(row, parcel_id),
              IF raised # "" THEN <<>> ELSE <<record>>,
              raised)

\* the values the loop of process_city reads from a row
city_row_values(row) ==
    [parcel_id |-> str_strip(row_get(row, FIELD_MAPPINGS.city.parcel_id.column, Py("str", ""))),
     raw_street_address |-> get_field_value(row, "city", "address", "street_primary", Py("str", "")),
     full_street_address |->
         str_strip(get_field_value(row, "city", "address", "street_primary", Py("str", ""))),
     zip_code_raw |->
         Str(strip_float_suffix(
                 Chars(str_strip(get_field_value(row, "city", "address", "zip", Py("str", "")))))),
     owner |-> [name |-> str_strip(get_field_value(row, "city", "owner", "name", Py("str", "")))]]

city_zip_logs(v, street_line, zip_ok, raw_full_address, std) ==
    (IF zip_ok THEN <<>>
     ELSE <<log_address_issue("invalid_zip.log",
                [parcel_id |-> v.parcel_id, region |-> "city",
                 invalid_zip |-> v.zip_code_raw, street |-> street_line])>>)
    \o parsed_zip_log(raw_full_address, std)

city_row_outcome(row, v, street_line, zip_ok, raw_full_address, std) ==
    IF v.parcel_id = "" THEN Iteration(<<>>, <<>>, <<>>, <<>>, "")
    ELSE IF is_missing_text(v.full_street_address)
    THEN Iteration(<<"missing_city_components">>,
                   <<log_address_issue("missing_components.log",
                         [parcel_id |-> v.parcel_id, region |-> "city",
                          issue |-> "missing_street_address",
                          data |-> [raw_siteaddr |-> v.raw_street_address,
                                    converted_str |-> v.full_street_address]])>>,
                   row_geometry(row, v.parcel_id), <<>>, "")
    ELSE IF std.address = ""
    THEN Iteration(zip_counters(zip_ok) \o <<"standardization_failure">>,
                   city_zip_logs(v, street_line, zip_ok, raw_full_address, std)
                   \o <<log_address_issue("standardization_errors.log",
                            [parcel_id |-> v.parcel_id, region |-> "city",
                             raw_address |-> raw_full_address])>>,
                   row_geometry(row, v.parcel_id), <<>>, "")
    ELSE accepted_row(row, "city", v.parcel_id,
                      city_zip_logs(v, street_line, zip_ok, raw_full_address, std),
                      zip_ok, is_po_box(std.address),
                      ParcelRecord(row, "city", v.parcel_id, std.address, "St. Louis City",
                                   centroid_lat_lng(row.geometry)[1],
                                   centroid_lat_lng(row.geometry)[2],
                                   v.owner, "StLouisCity_Parcels"),
                      record_exception(row, "city"))

city_row_standardized(row, v, street_line, zip_ok, raw_full_address) ==
    city_row_outcome(row, v, street_line, zip_ok, raw_full_address,
                     standardize_address_call(raw_full_address, "St. Louis", "MO", "63102"))

city_row_address(row, v, street_line, zip_ok) ==
    city_row_standardized(row, v, street_line, zip_ok,
                          street_line \o ", St. Louis, MO "
                          \o (IF zip_ok THEN v.zip_code_raw ELSE "63102"))

\* one iteration of the loop of process_city (both scripts)
process_city_iteration(row) ==
    city_row_address(row, city_row_values(row),
                     Str(strip(sub_backslash_s(Chars(city_row_values(row).full_street_address)))),
                     is_valid_zip(city_row_values(row).zip_code_raw))

\* "St. Louis County (Unincorporated)" for an unincorporated municipality
county_city_to_use(city) ==
    IF Str(upper(Chars(city))) = "UNINCORPORATED"
    THEN "St. Louis County (Unincorporated)" ELSE city

\* the values the loop of process_county reads from a row
county_row_values(row) ==
    [parcel_id |-> str_strip(row_get(row, FIELD_MAPPINGS.county.parcel_id.column, Py("str", ""))),
     raw_address_raw |-> get_field_value(row, "county", "address", "full", Py("str", "")),
     raw_address |-> str_strip(get_field_value(row, "county", "address", "full", Py("str", ""))),
     raw_zip |-> str_strip(get_field_value(row, "county", "address", "zip", Py("str", ""))),
     raw_municipality |->
         Str(title(Chars(str_strip(
             get_field_value(row, "county", "address", "municipality", Py("str", "")))))),
     addr_num_fallback |->
         str_strip(get_field_value(row, "county", "address", "number", Py("str", ""))),
     owner |->
         [name |-> str_strip(get_field_value(row, "county", "owner", "name", Py("str", ""))),
          tenure |-> str_strip(get_field_value(row, "county", "owner", "tenure", Py("str", ""))),
          owner_state |-> str_strip(get_field_value(row, "county", "owner", "state", Py("str", "")))]]

\* the region name of a county record
county_region_name(raw_municipality) ==
    IF raw_municipality # "" THEN Str(title(Chars(raw_municipality))) ELSE "St. Louis County"

county_zip_logs(v, zip_ok, full_address_for_std, std) ==
    (IF zip_ok THEN <<>>
     ELSE <<log_address_issue("invalid_zip.log",
                [parcel_id |-> v.parcel_id, region |-> "county",
                 invalid_zip |-> v.raw_zip, address |-> v.raw_address])>>)
    \o parsed_zip_log(full_address_for_std, std)

county_row_outcome(row, v, zip_ok, full_address_for_std, std) ==
    IF v.parcel_id = "" THEN Iteration(<<>>, <<>>, <<>>, <<>>, "")
    ELSE IF is_missing_text(v.raw_address)
    THEN Iteration(<<"missing_street">>,
                   IF v.addr_num_fallback # ""
                   THEN <<log_address_issue("missing_components.log",
                              [parcel_id |-> v.parcel_id, region |-> "county",
                               issue |-> "missing_PROP_ADD",
                               data |-> [PROP_ADRNU |-> v.addr_num_fallback,
                                         MUNI |-> v.raw_municipality,
                                         raw_address |-> v.raw_address_raw,
                                         converted_str |-> v.raw_address]])>>
                   ELSE <<>>,
                   row_geometry(row, v.parcel_id), <<>>, "")
    ELSE IF std.address = ""
    THEN Iteration(zip_counters(zip_ok) \o <<"standardization_failure">>,
                   county_zip_logs(v, zip_ok, full_address_for_std, std)
                   \o <<log_address_issue("standardization_errors.log",
                            [parcel_id |-> v.parcel_id, region |-> "county",
                             raw_address |-> full_address_for_std])>>,
                   row_geometry(row, v.parcel_id), <<>>, "")
    ELSE accepted_row(row, "county", v.parcel_id,
                      county_zip_logs(v, zip_ok, full_address_for_std, std),
                      zip_ok, is_po_box(std.address),
                      ParcelRecord(row, "county", v.parcel_id, std.address,
                                   county_region_name(v.raw_municipality),
                                   centroid_lat_lng(row.geometry)[1],
                                   centroid_lat_lng(row.geometry)[2],
                                   v.owner, "StLouisCounty_Parcels_Current"),
                      record_exception(row, "county"))

\* zip_to_use is raw_zip whether or not the ZIP is valid
county_row_address(row, v, zip_ok, city_to_use, zip_to_use) ==
    county_row_outcome(row, v, zip_ok,
                       v.raw_address \o ", " \o city_to_use \o ", MO " \o zip_to_use,
                       standardize_address_call(
                           v.raw_address \o ", " \o city_to_use \o ", MO " \o zip_to_use,
                           city_to_use, "MO", zip_to_use))

\* one iteration of the loop of process_county (both scripts)
process_county_iteration(row) ==
    county_row_address(row, county_row_values(row),
                       is_valid_zip(county_row_values(row).raw_zip),
                       county_city_to_use(IF county_row_values(row).raw_municipality # ""
                                          THEN county_row_values(row).raw_municipality
                                          ELSE "St. Louis County"),
                       county_row_values(row).raw_zip)

(***************************************************************************)
(* The row loops of ShapefileProcessor.  They keep the counters but never  *)
(* call a logger, skip post-office boxes, and reproject the centroid.      *)
(***************************************************************************)
\* lat, lng of the centroid.  The centroid of an empty shape is an empty
\* point; reading its x raises in one shapely release and gives NaN in
\* another, and with NaN the record carries 0, 0.
ShapefileProcessor_centroid(geometry) ==
    IF geometry.is_empty
    THEN {[raised |-> "IndexError", lat |-> 0, lng |-> 0], [raised |-> "", lat |-> 0, lng |-> 0]}
    ELSE LET c == coords_of(geometry.centroid, geometry.epsg)
             abs(x) == IF x < 0 THEN -x ELSE x
             wgs84 == coords_of(geometry.centroid, 4326)
         IN  IF geometry.crs # "none" /\ geometry.crs # "EPSG:4326"
             THEN {[raised |-> "", lat |-> wgs84[2], lng |-> wgs84[1]]}
             ELSE IF abs(c[1]) > 180 * 100 \/ abs(c[2]) > 90 * 100
             THEN {[raised |-> "", lat |-> wgs84[2], lng |-> wgs84[1]]}
             ELSE {[raised |-> "", lat |-> c[2], lng |-> c[1]]}

\* the exception that leaves an iteration of a ShapefileProcessor loop
ShapefileProcessor_raised(centroid, exception) ==
    IF exception = "AttributeError" THEN "AttributeError"
    ELSE IF centroid.raised # "" THEN centroid.raised
    ELSE exception

\* the end of an iteration from the post-office-box check on
ShapefileProcessor_accepted_row(row, region, parcel_id, zip_ok, po_box, record, raised) ==
    IF po_box
    THEN Iteration(zip_counters(zip_ok) \o <<"po_box">>, <<>>, row_geometry(row, parcel_id),
                   <<>>, "")
    ELSE Iteration(zip_counters(zip_ok) \o <<"valid_addresses", region \o "_records_valid">>,
                   <<>>, row_geometry(row, parcel_id),
                   IF raised # "" THEN <<>> ELSE <<record>>, raised)

ShapefileProcessor_city_outcome(row, centroid, v, zip_ok, standardized_address) ==
    IF v.parcel_id = "" THEN Iteration(<<>>, <<>>, <<>>, <<>>, "")
    ELSE IF is_missing_text(v.full_street_address)
    THEN Iteration(<<"missing_city_components">>, <<>>, row_geometry(row, v.parcel_id), <<>>, "")
    ELSE IF standardized_address = ""
    THEN Iteration(zip_counters(zip_ok) \o <<"standardization_failure">>, <<>>,
                   row_geometry(row, v.parcel_id), <<>>, "")
    ELSE ShapefileProcessor_accepted_row(
             row, "city", v.parcel_id, zip_ok,
             ShapefileProcessor_is_po_box(standardized_address),
             ParcelRecord(row, "city", v.parcel_id, standardized_address, "St. Louis City",
                          centroid.lat, centroid.lng, v.owner, "StLouisCity_Parcels"),
             ShapefileProcessor_raised(centroid, record_exception(row, "city")))

ShapefileProcessor_city_address(row, centroid, v, zip_ok) ==
    ShapefileProcessor_city_outcome(
        row, centroid, v, zip_ok,
        ShapefileProcessor_standardize_address(
            v.full_street_address \o ", St. Louis, MO "
            \o (IF zip_ok THEN v.zip_code_raw ELSE "63102"),
            "St. Louis", "MO", "63102"))

\* one iteration of the loop of process_city_data
ShapefileProcessor_city_iteration(row, centroid) ==
    ShapefileProcessor_city_address(row, centroid, city_row_values(row),
                                    is_valid_zip(city_row_values(row).zip_code_raw))

ShapefileProcessor_county_outcome(row, centroid, v, zip_ok, standardized_address) ==
    IF v.parcel_id = "" THEN Iteration(<<>>, <<>>, <<>>, <<>>, "")
    ELSE IF is_missing_text(v.raw_address)
    THEN Iteration(<<"missing_street">>, <<>>, row_geometry(row, v.parcel_id), <<>>, "")
    ELSE IF standardized_address = ""
    THEN Iteration(zip_counters(zip_ok) \o <<"standardization_failure">>, <<>>,
                   row_geometry(row, v.parcel_id), <<>>, "")
    ELSE ShapefileProcessor_accepted_row(
             row, "county", v.parcel_id, zip_ok,
             ShapefileProcessor_is_po_box(standardized_address),
             ParcelRecord(row, "county", v.parcel_id, standardized_address,
                          county_region_name(v.raw_municipality),
                          centroid.lat, centroid.lng, v.owner,
                          "StLouisCounty_Parcels_Current"),
             ShapefileProcessor_raised(centroid, record_exception(row, "county")))

ShapefileProcessor_county_address(row, centroid, v, zip_ok, city_to_use, zip_to_use) ==
    ShapefileProcessor_county_outcome(
        row, centroid, v, zip_ok,
        ShapefileProcessor_standardize_address(
            v.raw_address \o ", " \o city_to_use \o ", MO " \o zip_to_use,
            city_to_use, "MO", zip_to_use))

\* one iteration of the loop of process_county_data: an invalid ZIP is
\* replaced by "63105"
ShapefileProcessor_county_iteration(row, centroid) ==
    ShapefileProcessor_county_address(
        row, centroid, county_row_values(row),
        is_valid_zip(county_row_values(row).raw_zip),
        county_city_to_use(IF county_row_values(row).raw_municipality # ""
                           THEN county_row_values(row).raw_municipality
                           ELSE "St. Louis County"),
        IF is_valid_zip(county_row_values(row).raw_zip)
        THEN county_row_values(row).raw_zip ELSE "63105")

(***************************************************************************)
(* The environment of a run: the source files present for each region and  *)
(* what the shapefile layer says about its coordinate reference system.    *)
(***************************************************************************)
CityFiles == {"shp", "shx", "dbf", "csv"}
CountyFiles == {"shp", "shx", "dbf"}

\* the coordinate ranges a layer can show: Missouri State Plane East (feet),
\* the range the scripts call State Plane West, UTM 15N (metres), degrees
Ranges ==
    {[x_min |-> 575000, x_max |-> 600000, y_min |-> 980000, y_max |-> 1000000],
     [x_min |-> 1700000, x_max |-> 1710000, y_min |-> 1200000, y_max |-> 1210000],
     [x_min |-> 740000, x_max |-> 741000, y_min |-> 4278000, y_max |-> 4279000],
     [x_min |-> -91, x_max |-> -90, y_min |-> 38, y_max |-> 39]}

NominalLayer ==
    [city |-> [declared |-> "EPSG:2815", prj |-> "EPSG:2815",
               range |-> [x_min |-> 575000, x_max |-> 600000, y_min |-> 980000, y_max |-> 1000000]],
     county |-> [declared |-> "EPSG:26916", prj |-> "EPSG:26916",
                 range |-> [x_min |-> 740000, x_max |-> 741000, y_min |-> 4278000, y_max |-> 4279000]]]

Environments ==
    {[files |-> [city |-> CityFiles, county |-> CountyFiles], layer |-> NominalLayer]}
    \cup {[files |-> [city |-> CityFiles \ {f}, county |-> CountyFiles], layer |-> NominalLayer] :
             f \in {"shp", "dbf", "csv"}}
    \cup {[files |-> [city |-> CityFiles, county |-> CountyFiles \ {f}], layer |-> NominalLayer] :
             f \in {"shp", "shx"}}
    \cup {[files |-> [city |-> CityFiles, county |-> CountyFiles],
           layer |-> [NominalLayer EXCEPT !.city = [declared |-> "none", prj |-> p, range |-> r]]] :
             p \in {"absent", "corrupt"}, r \in Ranges}
    \cup {[files |-> [city |-> CityFiles, county |-> CountyFiles],
           layer |-> [NominalLayer EXCEPT !.city.declared = "none"]]}
    \cup {[files |-> [city |-> CityFiles, county |-> CountyFiles],
           layer |-> [NominalLayer EXCEPT !.county.declared = "none", !.county.prj = p]] :
             p \in {"absent", "corrupt", "EPSG:26916"}}


InitialStats ==
    [total_processed |-> 0, valid_addresses |-> 0, missing_city_components |-> 0,
     missing_street |-> 0, po_box |-> 0, invalid_zip |-> 0, standardization_failure |-> 0,
     city_records_processed |-> 0, county_records_processed |-> 0,
     city_records_valid |-> 0, county_records_valid |-> 0]

Init ==
    /\ impl \in {"data", "storage", "pipeline"}
    /\ \E env \in Environments : files = env.files /\ layer = env.layer
    /\ pc = "main"
    /\ gdf_len = [city |-> 0, county |-> 0]
    /\ idx = [city |-> 0, county |-> 0]
    /\ last_row = [region |-> "none"]
    /\ results = [city |-> <<>>, county |-> <<>>]
    /\ geometry_data = [city |-> {}, county |-> {}]
    /\ address_stats = InitialStats
    /\ anomaly_log = <<>>
    /\ console = {}
    /\ crs_used = [city |-> "none", county |-> "none"]
    /\ attempted = {}
    /\ row_error = <<>>
    /\ errors = <<>>
    /\ unified = <<>>
    /\ addr_in = ""
    /\ addr_out = <<>>
    /\ batch = <<>>
    /\ order_runs = <<>>
    /\ runs = 1
    /\ index_file = "none"
    /\ validation = <<>>
    /\ args = <<>>
    /\ ret = <<>>
    /\ calls = <<>>
    /\ cdn = {}

\* the coordinate-range table of the storage script's process_city
crs_from_range(r) ==
    IF 570000 <= r.x_min /\ r.x_min <= 610000 /\ 570000 <= r.x_max /\ r.x_max <= 610000
       /\ 970000 <= r.y_min /\ r.y_min <= 1010000 /\ 970000 <= r.y_max /\ r.y_max <= 1010000
    THEN [crs |-> "EPSG:2815", message |-> "city: coordinates appear to be EPSG:2815"]
    ELSE IF 1600000 <= r.x_min /\ r.x_min <= 2600000 /\ 1100000 <= r.y_min /\ r.y_min <= 2000000
    THEN [crs |-> "EPSG:26916", message |-> "city: coordinates appear to be EPSG:26916"]
    ELSE IF 700000 <= r.x_min /\ r.x_min <= 800000 /\ 4200000 <= r.y_min /\ r.y_min <= 4400000
    THEN [crs |-> "EPSG:26915", message |-> "city: coordinates appear to be EPSG:26915"]
    ELSE [crs |-> "EPSG:2815", message |-> "city: ranges match no known system, assuming EPSG:2815"]

\* the input CRS the storage script's process_city settles on, and what it prints
storage_city_crs(l) ==
    IF l.declared # "none"
    THEN [crs |-> l.declared, messages |-> {"city: CRS found in shapefile"}]
    ELSE IF l.prj = "absent"
    THEN [crs |-> crs_from_range(l.range).crs,
          messages |-> {"city: no CRS found in shapefile", "city: no .prj file available",
                        crs_from_range(l.range).message}]
    ELSE IF l.prj = "corrupt"
    THEN [crs |-> crs_from_range(l.range).crs,
          messages |-> {"city: no CRS found in shapefile", "city: failed to read CRS from .prj file",
                        crs_from_range(l.range).message}]
    ELSE [crs |-> l.prj,
          messages |-> {"city: no CRS found in shapefile", "city: set CRS from .prj file"}]

\* the same for the storage script's process_county, which has no range table
storage_county_crs(l) ==
    IF l.declared # "none"
    THEN [crs |-> l.declared, messages |-> {"county: CRS found in shapefile"}]
    ELSE IF l.prj = "absent"
    THEN [crs |-> "EPSG:26916",
          messages |-> {"county: no CRS found in shapefile",
                        "county: no .prj file available, assuming EPSG:26916"}]
    ELSE IF l.prj = "corrupt"
    THEN [crs |-> "EPSG:26916",
          messages |-> {"county: no CRS found in shapefile",
                        "county: failed to read CRS from .prj file, assuming EPSG:26916"}]
    ELSE [crs |-> l.prj,
          messages |-> {"county: no CRS found in shapefile", "county: set CRS from .prj file"}]

(***************************************************************************)
(* The two scripts: process_city(), process_county(), create_unified_data  *)
(* and generate_report() called in turn by __main__.                       *)
(***************************************************************************)
\* address_stats[name] += 1 for every name of the list
bump(stats, names) ==
    [k \in DOMAIN stats |-> stats[k] + Cardinality({i \in 1..Len(names) : names[i] = k})]

\* the effect of one loop iteration on the run.  Nothing in a row loop
\* catches an exception: in a script it ends the process, in the pipeline it
\* travels up to run_intelligent_pipeline.
RowStep(region, r, it) ==
    /\ last_row' = [region |-> region, values |-> r]
    /\ idx' = [idx EXCEPT ![region] = @ + 1]
    /\ address_stats' = bump(address_stats, it.counters)
    /\ anomaly_log' = anomaly_log \o it.logs
    /\ geometry_data' =
           [geometry_data EXCEPT ![region] =
               {e \in @ : \A k \in 1..Len(it.geometry) : e.id # it.geometry[k].id}
               \cup {it.geometry[k] : k \in 1..Len(it.geometry)}]
    /\ results' = [results EXCEPT ![region] = @ \o it.record]
    /\ IF it.raised = ""
       THEN UNCHANGED <<row_error, errors, pc>>
       ELSE /\ row_error' = Append(row_error, [region |-> region, index |-> idx[region],
                                               exception |-> it.raised])
            /\ IF impl = "pipeline"
               THEN /\ errors' = Append(errors, "Pipeline failure: " \o it.raised)
                    /\ pc' = "cleanup"
               ELSE /\ errors' = errors
                    /\ pc' = "crashed"
    /\ UNCHANGED <<impl, files, layer, gdf_len, console, crs_used, attempted, unified,
                   addr_in, addr_out, study_vars>>

\* a processing function returns [], {} before its loop
RegionFails(region, messages, next) ==
    /\ attempted' = attempted \cup {region}
    /\ console' = console \cup messages
    /\ pc' = next
    /\ UNCHANGED <<impl, files, layer, gdf_len, idx, last_row, results, geometry_data,
                   address_stats, anomaly_log, crs_used, row_error, errors, unified,
                   addr_in, addr_out, study_vars>>

\* a processing function has its table and enters its loop
RegionLoaded(region, n, crs, messages, next) ==
    /\ attempted' = attempted \cup {region}
    /\ console' = console \cup messages
    /\ gdf_len' = [gdf_len EXCEPT ![region] = n]
    /\ address_stats' =
           IF region = "city" THEN [address_stats EXCEPT !.city_records_processed = n]
           ELSE [address_stats EXCEPT !.county_records_processed = n]
    /\ crs_used' = [crs_used EXCEPT ![region] = crs]
    /\ pc' = next
    /\ UNCHANGED <<impl, files, layer, idx, last_row, results, geometry_data, anomaly_log,
                   row_error, errors, unified, addr_in, addr_out, study_vars>>

\* process_city of src/data/injest_shapes.py up to its loop: to_crs on a
\* layer without a CRS raises, and the except clause returns [], {}
process_city ==
    /\ impl = "data" /\ pc = "main"
    /\ IF "shp" \notin files.city
       THEN RegionFails("city", {"city: shapefile missing"}, "county")
       ELSE LET notes == (IF "dbf" \in files.city THEN {} ELSE {"city: DBF file missing"})
                         \cup (IF "csv" \in files.city THEN {} ELSE {"city: CSV file missing"})
            IN  IF files.city # CityFiles \/ layer.city.declared = "none"
                THEN RegionFails("city", notes \cup {"city: error loading or merging city data"},
                                 "county")
                ELSE \E n \in 0..MaxRows :
                         RegionLoaded("city", n, layer.city.declared, notes, "city_loop")

\* process_county of src/data/injest_shapes.py up to its loop
process_county ==
    /\ impl = "data" /\ pc = "county"
    /\ IF "shp" \notin files.county
       THEN RegionFails("county", {"county: shapefile missing"}, "unify")
       ELSE IF "shx" \notin files.county \/ layer.county.declared = "none"
       THEN RegionFails("county", {"county: error reading county shapefile"}, "unify")
       ELSE IF "dbf" \notin files.county
       THEN RegionFails("county", {"county: parcel id field not found"}, "unify")
       ELSE \E n \in 0..(MaxRows - gdf_len.city) :
                RegionLoaded("county", n, layer.county.declared, {}, "county_loop")

\* process_city of src/config/scripts/injest_shapes.py up to its loop
storage_process_city ==
    /\ impl = "storage" /\ pc = "main"
    /\ IF "shp" \notin files.city
       THEN RegionFails("city", {"city: shapefile missing or failed to fetch"}, "county")
       ELSE IF "shx" \notin files.city
       THEN RegionFails("city", {"city: SHX file missing or failed to fetch"}, "county")
       ELSE LET notes == (IF "dbf" \in files.city THEN {} ELSE {"city: DBF file missing"})
                         \cup (IF "csv" \in files.city THEN {} ELSE {"city: CSV file missing"})
                         \cup (IF layer.city.prj # "absent" THEN {} ELSE {"city: PRJ file missing"})
                         \cup storage_city_crs(layer.city).messages
            IN  IF files.city # CityFiles
                THEN RegionFails("city", notes \cup {"city: error loading or merging city data"},
                                 "county")
                ELSE \E n \in 0..MaxRows :
                         RegionLoaded("city", n, storage_city_crs(layer.city).crs, notes, "city_loop")

\* process_county of src/config/scripts/injest_shapes.py up to its loop
storage_process_county ==
    /\ impl = "storage" /\ pc = "county"
    /\ IF "shp" \notin files.county
       THEN RegionFails("county", {"county: shapefile missing or failed to fetch"}, "unify")
       ELSE IF "shx" \notin files.county
       THEN RegionFails("county", {"county: SHX file missing or failed to fetch"}, "unify")
       ELSE LET notes == (IF layer.county.prj # "absent" THEN {} ELSE {"county: PRJ file missing"})
                         \cup storage_county_crs(layer.county).messages
            IN  IF "dbf" \notin files.county
                THEN RegionFails("county", notes \cup {"county: parcel id field not found"}, "unify")
                ELSE \E n \in 0..(MaxRows - gdf_len.city) :
                         RegionLoaded("county", n, storage_county_crs(layer.county).crs, notes,
                                      "county_loop")

\* the tables of what an iteration does with each row
city_iterations == [r \in CityRows |-> process_city_iteration(r)]
county_iterations == [r \in CountyRows |-> process_county_iteration(r)]

\* for _, row in gdf.iterrows() of process_city (either script)
process_city_loop ==
    /\ impl \in {"data", "storage"} /\ pc = "city_loop" /\ idx.city < gdf_len.city
    /\ \E r \in CityRows : RowStep("city", r, city_iterations[r])

\* the end of process_city: the processed JSON is written and the lists returned
process_city_return ==
    /\ impl \in {"data", "storage"} /\ pc = "city_loop" /\ idx.city = gdf_len.city
    /\ pc' = "county"
    /\ UNCHANGED <<impl, files, layer, gdf_len, idx, last_row, results, geometry_data,
                   address_stats, anomaly_log, console, crs_used, attempted, row_error,
                   errors, unified, addr_in, addr_out, study_vars>>

\* for _, row in gdf.iterrows() of process_county (either script)
process_county_loop ==
    /\ impl \in {"data", "storage"} /\ pc = "county_loop" /\ idx.county < gdf_len.county
    /\ \E r \in CountyRows : RowStep("county", r, county_iterations[r])

process_county_return ==
    /\ impl \in {"data", "storage"} /\ pc = "county_loop" /\ idx.county = gdf_len.county
    /\ pc' = "unify"
    /\ UNCHANGED <<impl, files, layer, gdf_len, idx, last_row, results, geometry_data,
                   address_stats, anomaly_log, console, crs_used, attempted, row_error,
                   errors, unified, addr_in, addr_out, study_vars>>

\* search_index of create_unified_data: a dict, so the last record of an id wins
search_index(all_data) ==
    {[id |-> all_data[i].id, full_address |-> all_data[i].full_address] :
        i \in {i \in 1..Len(all_data) : \A j \in (i + 1)..Len(all_data) : all_data[j].id # all_data[i].id}}

create_unified_data ==
    /\ impl \in {"data", "storage"} /\ pc = "unify"
    /\ unified' = <<search_index(results.city \o results.county)>>
    /\ pc' = "report"
    /\ UNCHANGED <<impl, files, layer, gdf_len, idx, last_row, results, geometry_data,
                   address_stats, anomaly_log, console, crs_used, attempted, row_error,
                   errors, addr_in, addr_out, study_vars>>

generate_report ==
    /\ impl \in {"data", "storage"} /\ pc = "report"
    /\ pc' = "done"
    /\ UNCHANGED <<impl, files, layer, gdf_len, idx, last_row, results, geometry_data,
                   address_stats, anomaly_log, console, crs_used, attempted, row_error,
                   errors, unified, addr_in, addr_out, study_vars>>

(***************************************************************************)
(* The pipeline: IngestPipeline.run_intelligent_pipeline drives the        *)
(* ShapefileProcessor.  The run is a "large" one, so no record limit       *)
(* applies and mock data has 100 parcels.                                  *)
(***************************************************************************)
num_parcels == 100

\* f"{i:05d}"
pad5(i) ==
    LET ds == format_int(i)
    IN  Str([k \in 1..(5 - Len(ds)) |-> "0"] \o ds)

mock_polygon(lon, lat) ==
    [type |-> "Polygon",
     coordinates |-> << <<<<lon, lat>>, <<lon + 1, lat>>, <<lon + 1, lat + 1>>,
                          <<lon, lat + 1>>, <<lon, lat>>>> >>,
     bbox |-> <<lon, lat, lon + 1, lat + 1>>]

\* record i of _create_mock_city_data; coordinates in hundredths of a degree
mock_city_record(i) ==
    LET streets == <<"Main St", "Broadway", "Market St", "Grand Blvd", "Kingshighway">>
        zip_codes == <<63101, 63102, 63103, 63104, 63105>>
        land == 3000 + ((i * 100) % 15000)
    IN  [id |-> "CITY_" \o pad5(i),
         original_parcel_id |-> "CITY_" \o pad5(i),
         full_address |-> Str(format_int(100 + i * 10)) \o " " \o streets[(i % 5) + 1]
                          \o ", St. Louis, MO " \o Str(format_int(zip_codes[(i % 5) + 1])),
         region |-> "St. Louis City",
         latitude |-> (386270 + 10 * i) \div 100,
         longitude |-> -((901994 - 10 * i) \div 100),
         calc |-> [landarea_sqft |-> Num(land * 100),
                   building_sqft |-> Num((800 + ((i * 50) % 4000)) * 100),
                   estimated_landscapable_area_sqft |-> Num(land * 70),
                   property_type |-> "residential",
                   year_built |-> 1950 + (i % 70)],
         assessment |-> [total_value |-> Num(150000 + ((i * 5000) % 500000)),
                         land_value |-> Num(50000 + ((i * 1000) % 100000)),
                         improvement_value |-> Num(100000 + ((i * 4000) % 400000))],
         owner |-> [name |-> "Owner " \o Alphabet.upper[(i % 26) + 1] \o " " \o Str(format_int(i))],
         affluence_score |-> 200 + (i % 30) * 10,
         source_file |-> "Mock_StLouisCity_Data"]

\* record i of _create_mock_county_data
mock_county_record(i) ==
    LET streets == <<"Oak Ave", "Elm Dr", "Park Blvd", "First St", "Second St">>
        cities == <<"Clayton", "University City", "Kirkwood", "Webster Groves", "Richmond Heights">>
        zip_codes == <<63105, 63130, 63122, 63119, 63117>>
        land == 5000 + ((i * 100) % 20000)
    IN  [id |-> "COUNTY_" \o pad5(i),
         original_parcel_id |-> "COUNTY_" \o pad5(i),
         full_address |-> Str(format_int(200 + i * 10)) \o " " \o streets[(i % 5) + 1]
                          \o ", " \o cities[(i % 5) + 1] \o ", MO "
                          \o Str(format_int(zip_codes[(i % 5) + 1])),
         region |-> cities[(i % 5) + 1],
         latitude |-> (386470 + 10 * i) \div 100,
         longitude |-> -((902994 - 10 * i) \div 100),
         calc |-> [landarea_sqft |-> Num(land * 100),
                   building_sqft |-> Num((1000 + ((i * 50) % 5000)) * 100),
                   estimated_landscapable_area_sqft |-> Num(land * 75),
                   property_type |-> "residential",
                   year_built |-> 1960 + (i % 60)],
         assessment |-> [total_value |-> Num(200000 + ((i * 8000) % 800000)),
                         land_value |-> Num(80000 + ((i * 2000) % 200000)),
                         improvement_value |-> Num(120000 + ((i * 6000) % 600000))],
         owner |-> [name |-> "County Owner " \o Alphabet.upper[(i % 26) + 1] \o " " \o Str(format_int(i)),
                    tenure |-> "OWNER", owner_state |-> "MO"],
         affluence_score |-> 250 + (i % 25) * 10,
         source_file |-> "Mock_StLouisCounty_Data"]

\* _create_mock_city_data / _create_mock_county_data take the place of the
\* region's processing when one of its files is missing in the temp directory
MockRegion(region, records, messages, next) ==
    /\ attempted' = attempted \cup {region}
    /\ console' = console \cup messages
    /\ results' = [results EXCEPT ![region] = records]
    /\ geometry_data' =
           [geometry_data EXCEPT ![region] =
               {[id |-> records[k].id,
                 geometry |-> mock_polygon(records[k].longitude, records[k].latitude)] :
                    k \in 1..Len(records)}]
    /\ address_stats' =
           IF region = "city"
           THEN [address_stats EXCEPT !.city_records_processed = num_parcels,
                                      !.city_records_valid = num_parcels,
                                      !.valid_addresses = @ + num_parcels]
           ELSE [address_stats EXCEPT !.county_records_processed = num_parcels,
                                      !.county_records_valid = num_parcels,
                                      !.valid_addresses = @ + num_parcels]
    /\ pc' = next
    /\ UNCHANGED <<impl, files, layer, gdf_len, idx, last_row, anomaly_log, crs_used,
                   row_error, errors, unified, addr_in, addr_out, study_vars>>

\* _prefer_local_shapefiles: the .shp and .dbf of both regions are there
local_available ==
    {"shp", "dbf"} \subseteq files.city /\ {"shp", "dbf"} \subseteq files.county

\* run_intelligent_pipeline entering _execute_full_rebuild, which raises when
\* the local shapefiles of either region are incomplete
run_intelligent_pipeline ==
    /\ impl = "pipeline" /\ pc = "main"
    /\ IF local_available
       THEN /\ pc' = "step_1"
            /\ errors' = errors
            /\ console' = console \cup {"found local shapefiles"}
       ELSE /\ pc' = "cleanup"
            /\ errors' = Append(errors, "Pipeline failure: Local shapefiles required for processing - no remote fallback")
            /\ console' = console \cup {"local shapefiles not found or incomplete"}
    /\ UNCHANGED <<impl, files, layer, gdf_len, idx, last_row, results, geometry_data,
                   address_stats, anomaly_log, crs_used, attempted, row_error, unified,
                   addr_in, addr_out, study_vars>>

\* ShapefileProcessor.process_city_data up to its loop
process_city_data ==
    /\ impl = "pipeline" /\ pc = "step_1"
    /\ IF files.city # CityFiles
       THEN MockRegion("city", [k \in 1..num_parcels |-> mock_city_record(k - 1)],
                       {"city: missing files", "city: creating mock data"}, "county")
       ELSE IF layer.city.declared = "none"
       THEN \E n \in 0..MaxRows :
                RegionLoaded("city", n, "EPSG:2815", {"city: setting default CRS"}, "city_loop")
       ELSE \E n \in 0..MaxRows :
                RegionLoaded("city", n, layer.city.declared, {}, "city_loop")

\* ShapefileProcessor.process_county_data up to its loop
process_county_data ==
    /\ impl = "pipeline" /\ pc = "county"
    /\ IF files.county # CountyFiles
       THEN MockRegion("county", [k \in 1..num_parcels |-> mock_county_record(k - 1)],
                       {"county: missing files", "county: creating mock data"}, "indexes")
       ELSE IF layer.county.declared = "none"
       THEN \E n \in 0..(MaxRows - gdf_len.city) :
                RegionLoaded("county", n, "EPSG:26916", {"county: setting default CRS"}, "county_loop")
       ELSE \E n \in 0..(MaxRows - gdf_len.city) :
                RegionLoaded("county", n, layer.county.declared, {}, "county_loop")

ShapefileProcessor_city_iterations ==
    [r \in CityRows |-> [c \in ShapefileProcessor_centroid(r.geometry) |->
                            ShapefileProcessor_city_iteration(r, c)]]
ShapefileProcessor_county_iterations ==
    [r \in CountyRows |-> [c \in ShapefileProcessor_centroid(r.geometry) |->
                              ShapefileProcessor_county_iteration(r, c)]]

process_city_data_loop ==
    /\ impl = "pipeline" /\ pc = "city_loop" /\ idx.city < gdf_len.city
    /\ \E r \in CityRows : \E c \in ShapefileProcessor_centroid(r.geometry) :
           RowStep("city", r, ShapefileProcessor_city_iterations[r][c])

process_city_data_return ==
    /\ impl = "pipeline" /\ pc = "city_loop" /\ idx.city = gdf_len.city
    /\ pc' = "county"
    /\ UNCHANGED <<impl, files, layer, gdf_len, idx, last_row, results, geometry_data,
                   address_stats, anomaly_log, console, crs_used, attempted, row_error,
                   errors, unified, addr_in, addr_out, study_vars>>

process_county_data_loop ==
    /\ impl = "pipeline" /\ pc = "county_loop" /\ idx.county < gdf_len.county
    /\ \E r \in CountyRows : \E c \in ShapefileProcessor_centroid(r.geometry) :
           RowStep("county", r, ShapefileProcessor_county_iterations[r][c])

process_county_data_return ==
    /\ impl = "pipeline" /\ pc = "county_loop" /\ idx.county = gdf_len.county
    /\ pc' = "indexes"
    /\ UNCHANGED <<impl, files, layer, gdf_len, idx, last_row, results, geometry_data,
                   address_stats, anomaly_log, console, crs_used, attempted, row_error,
                   errors, unified, addr_in, addr_out, study_vars>>

\* the documents list _create_regional_indexes writes for one region
documents(region_data) ==
    [k \in 1..Len(region_data) |->
        [id |-> region_data[k].id, full_address |-> region_data[k].full_address]]

\* _create_regional_indexes, then the upload steps of _execute_full_rebuild
create_regional_indexes ==
    /\ impl = "pipeline" /\ pc = "indexes"
    /\ unified' = IF results.city = <<>> /\ results.county = <<>> THEN <<>>
                  ELSE <<[stl_city |-> documents(results.city),
                          stl_county |-> documents(results.county)]>>
    /\ pc' = "cleanup"
    /\ UNCHANGED <<impl, files, layer, gdf_len, idx, last_row, results, geometry_data,
                   address_stats, anomaly_log, console, crs_used, attempted, row_error,
                   errors, addr_in, addr_out, study_vars>>

\* the finally clause of run_intelligent_pipeline: step_5_cleanup and generate_report
step_5_cleanup ==
    /\ impl = "pipeline" /\ pc = "cleanup"
    /\ pc' = "done"
    /\ UNCHANGED <<impl, files, layer, gdf_len, idx, last_row, results, geometry_data,
                   address_stats, anomaly_log, console, crs_used, attempted, row_error,
                   errors, unified, addr_in, addr_out, study_vars>>

Next ==
    \/ process_city
    \/ process_city_loop
    \/ process_city_return
    \/ process_county
    \/ process_county_loop
    \/ process_county_return
    \/ storage_process_city
    \/ storage_process_county
    \/ create_unified_data
    \/ generate_report
    \/ run_intelligent_pipeline
    \/ process_city_data
    \/ process_city_data_loop
    \/ process_city_data_return
    \/ process_county_data
    \/ process_county_data_loop
    \/ process_county_data_return
    \/ create_regional_indexes
    \/ step_5_cleanup

Spec == Init /\ [][Next]_vars

(***************************************************************************)
(* standardize_address applied to an address and then to its own output,   *)
(* with the defaults of its signature.                                     *)
(***************************************************************************)
AddrInputs ==
    {street \o tail :
        street \in {"123 MAIN ST", "123 MAIN.", "1ST", "100.0 N 2ND AVENUE", "5 north oak dr",
                    "12 1/2 ELM", "PO BOX 12", ""},
        tail \in {"", ", CLAYTON.", ", SAINT LOUIS, mo 63101-1234", ", unincorporated, MO 6310"}}

InitAddr ==
    /\ impl \in {"data", "storage", "pipeline"}
    /\ addr_in \in AddrInputs
    /\ addr_out = <<>>
    /\ pc = "address"
    /\ files = [city |-> CityFiles, county |-> CountyFiles]
    /\ layer = NominalLayer
    /\ gdf_len = [city |-> 0, county |-> 0]
    /\ idx = [city |-> 0, county |-> 0]
    /\ last_row = [region |-> "none"]
    /\ results = [city |-> <<>>, county |-> <<>>]
    /\ geometry_data = [city |-> {}, county |-> {}]
    /\ address_stats = InitialStats
    /\ anomaly_log = <<>>
    /\ console = {}
    /\ crs_used = [city |-> "none", county |-> "none"]
    /\ attempted = {}
    /\ row_error = <<>>
    /\ errors = <<>>
    /\ unified = <<>>
    /\ batch = <<>>
    /\ order_runs = <<>>
    /\ runs = 1
    /\ index_file = "none"
    /\ validation = <<>>
    /\ args = <<>>
    /\ ret = <<>>
    /\ calls = <<>>
    /\ cdn = {}

\* the standardize_address of the implementation under test
standardize_with(i, full_address_str) ==
    IF i = "pipeline"
    THEN ShapefileProcessor_standardize_address(full_address_str, "Unknown City", "MO", "63102")
    ELSE standardize_address(full_address_str, "Unknown City", "MO", "63102")

standardize_once ==
    /\ pc = "address" /\ addr_out = <<>>
    /\ addr_out' = <<standardize_with(impl, addr_in)>>
    /\ UNCHANGED <<impl, pc, files, layer, gdf_len, idx, last_row, results, geometry_data,
                   address_stats, anomaly_log, console, crs_used, attempted, row_error,
                   errors, unified, addr_in, study_vars>>

standardize_again ==
    /\ pc = "address" /\ Len(addr_out) = 1
    /\ addr_out' = Append(addr_out, standardize_with(impl, addr_out[1]))
    /\ UNCHANGED <<impl, pc, files, layer, gdf_len, idx, last_row, results, geometry_data,
                   address_stats, anomaly_log, console, crs_used, attempted, row_error,
                   errors, unified, addr_in, study_vars>>

NextAddr ==
    \/ standardize_once
    \/ standardize_again

SpecAddr == InitAddr /\ [][NextAddr]_vars

(***************************************************************************)
(* One table processed twice by the row loop of its region: first in the   *)
(* order of the table, then in the reverse order, each time from freshly   *)
(* initialised results, geometry_data and counters.                        *)
(***************************************************************************)
\* the second shape of a parcel drawn as two features with one parcel id
AdjoiningPolygon ==
    [geom_type |-> "Polygon", is_empty |-> FALSE, crs |-> "none", epsg |-> 26915,
     rings |-> << <<Place(74002000, 427800000, -9018, 3863),
                    Place(74004000, 427800000, -9016, 3863),
                    Place(74004000, 427802000, -9016, 3865),
                    Place(74002000, 427800000, -9018, 3863)>> >>,
     centroid |-> Place(74003333, 427800667, -9017, 3864),
     area |-> Num(300)]

\* tables of two rows of one region; empty_point says what reading the x of
\* an empty centroid does in the shapely release installed
Batches ==
    {[region |-> "city", rows |-> <<a, b>>, empty_point |-> e] :
        a \in CityRows, b \in CityRows \cup {[CityRowOk EXCEPT !.geometry = AdjoiningPolygon]},
        e \in {"IndexError", ""}}
    \cup {[region |-> "county", rows |-> <<a, b>>, empty_point |-> e] :
             a \in CountyRows,
             b \in CountyRows \cup {[CountyRowOk EXCEPT !.geometry = AdjoiningPolygon]},
             e \in {"IndexError", ""}}

\* the counters when the row loop of a table of n rows starts
loop_start_stats(region, n) ==
    IF region = "city" THEN [InitialStats EXCEPT !.city_records_processed = n]
    ELSE [InitialStats EXCEPT !.county_records_processed = n]

InitOrder ==
    /\ impl \in {"data", "storage", "pipeline"}
    /\ batch \in Batches
    /\ order_runs = <<>>
    /\ pc = batch.region \o "_loop"
    /\ files = [city |-> CityFiles, county |-> CountyFiles]
    /\ layer = NominalLayer
    /\ gdf_len = [city |-> 0, county |-> 0]
    /\ idx = [city |-> 0, county |-> 0]
    /\ last_row = [region |-> "none"]
    /\ results = [city |-> <<>>, county |-> <<>>]
    /\ geometry_data = [city |-> {}, county |-> {}]
    /\ address_stats = loop_start_stats(batch.region, Len(batch.rows))
    /\ anomaly_log = <<>>
    /\ console = {}
    /\ crs_used = [city |-> "none", county |-> "none"]
    /\ attempted = {}
    /\ row_error = <<>>
    /\ errors = <<>>
    /\ unified = <<>>
    /\ addr_in = ""
    /\ addr_out = <<>>
    /\ runs = 1
    /\ index_file = "none"
    /\ validation = <<>>
    /\ args = <<>>
    /\ ret = <<>>
    /\ calls = <<>>
    /\ cdn = {}

\* the rows as iterrows() hands them out in the current pass
rows_in_order ==
    IF order_runs = <<>> THEN batch.rows
    ELSE [k \in 1..Len(batch.rows) |-> batch.rows[Len(batch.rows) + 1 - k]]

\* what the loop of the implementation does with a row of the batch
batch_iteration(row, centroid) ==
    IF impl = "pipeline"
    THEN IF batch.region = "city" THEN ShapefileProcessor_city_iteration(row, centroid)
         ELSE ShapefileProcessor_county_iteration(row, centroid)
    ELSE IF batch.region = "city" THEN process_city_iteration(row)
    ELSE process_county_iteration(row)

\* one iteration of the row loop over the batch
iterate_batch ==
    /\ pc \in {"city_loop", "county_loop"} /\ Len(order_runs) < 2
    /\ idx[batch.region] < Len(batch.rows)
    /\ \E c \in ShapefileProcessor_centroid(rows_in_order[idx[batch.region] + 1].geometry) :
           /\ c.raised \in {"", batch.empty_point}
           /\ c.raised = batch.empty_point
                  \/ ShapefileProcessor_centroid(
                         rows_in_order[idx[batch.region] + 1].geometry) = {c}
           /\ RowStep(batch.region, rows_in_order[idx[batch.region] + 1],
                      batch_iteration(rows_in_order[idx[batch.region] + 1], c))

\* the loop has ended, by exhausting the table or by an exception: what it
\* left behind is kept, and the next pass starts from fresh state
end_of_pass ==
    /\ Len(order_runs) < 2
    /\ pc \in {"crashed", "cleanup"} \/ idx[batch.region] = Len(batch.rows)
    /\ order_runs' =
           Append(order_runs,
                  [records |-> {results[batch.region][k] : k \in 1..Len(results[batch.region])},
                   geometry_data |-> geometry_data[batch.region],
                   address_stats |-> address_stats,
                   raised |-> pc \in {"crashed", "cleanup"}])
    /\ pc' = batch.region \o "_loop"
    /\ idx' = [city |-> 0, county |-> 0]
    /\ results' = [city |-> <<>>, county |-> <<>>]
    /\ geometry_data' = [city |-> {}, county |-> {}]
    /\ address_stats' = loop_start_stats(batch.region, Len(batch.rows))
    /\ UNCHANGED <<impl, files, layer, gdf_len, last_row, anomaly_log, console, crs_used,
                   attempted, row_error, errors, unified, addr_in, addr_out, batch, runs,
                   index_file, validation, args, ret, calls, cdn>>

NextOrder ==
    \/ iterate_batch
    \/ end_of_pass

SpecOrder == InitOrder /\ [][NextOrder]_vars

(***************************************************************************)
(* The IngestPipeline object run more than once: run_full_pipeline is      *)
(* called again on the object, whose ShapefileProcessor and statistics     *)
(* were created by __init__.                                               *)
(***************************************************************************)
MaxRuns == 2

InitRuns == Init /\ impl = "pipeline"

\* run_full_pipeline called on a pipeline that has finished a run: the lists
\* of the earlier run are gone, self.stats and the processor's address_stats
\* are the objects __init__ made
run_full_pipeline ==
    /\ impl = "pipeline" /\ pc = "done" /\ runs < MaxRuns
    /\ runs' = runs + 1
    /\ pc' = "main"
    /\ gdf_len' = [city |-> 0, county |-> 0]
    /\ idx' = [city |-> 0, county |-> 0]
    /\ last_row' = [region |-> "none"]
    /\ results' = [city |-> <<>>, county |-> <<>>]
    /\ geometry_data' = [city |-> {}, county |-> {}]
    /\ crs_used' = [city |-> "none", county |-> "none"]
    /\ attempted' = {}
    /\ unified' = <<>>
    /\ UNCHANGED <<impl, files, layer, address_stats, anomaly_log, console, row_error,
                   errors, addr_in, addr_out, batch, order_runs, index_file, validation,
                   args, ret, calls, cdn>>

NextRuns ==
    \/ run_intelligent_pipeline
    \/ process_city_data
    \/ process_city_data_loop
    \/ process_city_data_return
    \/ process_county_data
    \/ process_county_data_loop
    \/ process_county_data_return
    \/ create_regional_indexes
    \/ step_5_cleanup
    \/ run_full_pipeline

SpecRuns == InitRuns /\ [][NextRuns]_vars

(***************************************************************************)
(* The address-index file and its validator.  A JSON value is a tagged     *)
(* record: Py(...) for a string, a number or null, json_dict for an object *)
(* and json_list for an array.  Coordinates are in hundredths of a degree. *)
(***************************************************************************)
json_dict(items) == [t |-> "dict", items |-> items]
json_list(items) == [t |-> "list", items |-> items]

\* isinstance(value, expected_type) for the types the validator names
isinstance(value, expected_type) ==
    CASE expected_type = "str"   -> value.t = "str"
      [] expected_type = "int"   -> value.t = "int"
      [] expected_type = "float" -> value.t \in {"int", "float", "nan"}

\* the loop over required_fields of validate_address_record and
\* validate_metadata: a missing field, or a field of the wrong type
required_field_errors(where, items, fields, types) ==
    LET found == [k \in 1..Len(fields) |->
                     IF fields[k] \notin DOMAIN items
                     THEN [where |-> where, field |-> fields[k], error |-> "missing required field"]
                     ELSE IF ~isinstance(items[fields[k]], types[k])
                     THEN [where |-> where, field |-> fields[k], error |-> "wrong type"]
                     ELSE [where |-> where, field |-> fields[k], error |-> ""]]
    IN  SelectSeq(found, LAMBDA e : e.error # "")

\* the range check of one coordinate of validate_address_record; projected
\* says whether the value counts as a projected coordinate
coordinate_errors(index, items, field, limit, projected) ==
    IF field \in DOMAIN items /\ isinstance(items[field], "float")
       /\ ~(items[field].t # "nan" /\ -limit <= items[field].n /\ items[field].n <= limit)
    THEN IF projected
         THEN <<[where |-> index, field |-> field,
                 error |-> "appears to be projected coordinates"]>>
         ELSE <<[where |-> index, field |-> field, error |-> "is out of valid range"]>>
    ELSE <<>>

\* the check that the string fields are not blank
empty_string_errors(index, items) ==
    LET fields == <<"id", "full_address", "region">>
        found == [k \in 1..Len(fields) |->
                     IF fields[k] \in DOMAIN items /\ isinstance(items[fields[k]], "str")
                        /\ strip(Chars(items[fields[k]].s)) = <<>>
                     THEN [where |-> index, field |-> fields[k], error |-> "cannot be empty"]
                     ELSE [where |-> index, field |-> fields[k], error |-> ""]]
    IN  SelectSeq(found, LAMBDA e : e.error # "")

validate_address_record(record, index) ==
    required_field_errors(index, record,
                          <<"id", "full_address", "region", "latitude", "longitude">>,
                          <<"str", "str", "str", "float", "float">>)
    \o coordinate_errors(index, record, "latitude", 90 * 100,
                         "latitude" \in DOMAIN record /\ record.latitude.t # "nan"
                             /\ record.latitude.n > 1000 * 100)
    \o coordinate_errors(index, record, "longitude", 180 * 100,
                         "longitude" \in DOMAIN record /\ record.longitude.t # "nan"
                             /\ (record.longitude.n > 1000 * 100
                                 \/ -record.longitude.n > 1000 * 100))
    \o empty_string_errors(index, record)

validate_metadata(metadata) ==
    required_field_errors("Metadata", metadata,
                          <<"region", "total_addresses", "build_time", "source", "version">>,
                          <<"str", "int", "str", "str", "str">>)

\* the errors of the first 100 records of addresses
address_errors(addresses, k) ==
    IF addresses[k].t # "dict"
    THEN <<[where |-> k - 1, field |-> "", error |-> "should be an object"]>>
    ELSE validate_address_record(addresses[k].items, k - 1)

\* the errors of entries first..last in their order, the range taken by halves
RECURSIVE records_errors_between(_, _, _)
records_errors_between(addresses, first, last) ==
    IF first > last THEN <<>>
    ELSE IF first = last THEN address_errors(addresses, first)
    ELSE records_errors_between(addresses, first, (first + last) \div 2)
         \o records_errors_between(addresses, ((first + last) \div 2) + 1, last)

\* for i, record in enumerate(addresses[:100]), from entry k on
records_errors(addresses, k) ==
    records_errors_between(addresses, k, IF Len(addresses) > 100 THEN 100 ELSE Len(addresses))

\* the errors of the metadata object and of its count
metadata_errors(metadata, addresses) ==
    IF metadata.t # "dict"
    THEN <<[where |-> "Metadata", field |-> "", error |-> "should be an object"]>>
    ELSE validate_metadata(metadata.items)
         \o (IF "total_addresses" \in DOMAIN metadata.items
                /\ (metadata.items.total_addresses.t \notin {"int", "float"}
                    \/ metadata.items.total_addresses.n # Len(addresses))
             THEN <<[where |-> "Metadata", field |-> "total_addresses",
                     error |-> "doesn't match actual count"]>>
             ELSE <<>>)

\* collecting the statistics calls addr.get on the first 1000 entries, which
\* raises for an entry that is not an object; the handler adds an error and
\* the result stays invalid
stats_errors(addresses) ==
    IF \E k \in 1..Len(addresses) : k <= 1000 /\ addresses[k].t # "dict"
    THEN <<[where |-> "file", field |-> "", error |-> "Validation error"]>>
    ELSE <<>>

validation_result(found, warnings) ==
    [valid |-> found = <<>>, errors |-> found, warnings |-> warnings]

validate_address_index_file(data) ==
    IF data.t # "dict"
    THEN validation_result(<<[where |-> "file", field |-> "", error |-> "Root should be an object"]>>, {})
    ELSE IF "addresses" \notin DOMAIN data.items
    THEN validation_result(<<[where |-> "file", field |-> "addresses", error |-> "Missing field"]>>, {})
    ELSE IF "metadata" \notin DOMAIN data.items
    THEN validation_result(<<[where |-> "file", field |-> "metadata", error |-> "Missing field"]>>, {})
    ELSE IF data.items.addresses.t # "list"
    THEN validation_result(<<[where |-> "file", field |-> "addresses", error |-> "should be an array"]>>, {})
    ELSE validation_result(
             records_errors(data.items.addresses.items, 1)
                 \o metadata_errors(data.items.metadata, data.items.addresses.items)
                 \o stats_errors(data.items.addresses.items),
             (IF data.items.addresses.items = <<>> THEN {"'addresses' array is empty"} ELSE {})
                 \cup (IF Len(data.items.addresses.items) > 100
                       THEN {"Only validated first 100 address records"} ELSE {}))

\* a Python number written by json.dump
json_number(x) == IF x.nan THEN Py("nan", 0) ELSE Py("float", x.v)

\* the number of parcels of all_data: len(metadata_list), the total_parcels
\* of the parcel metadata file
total_parcels(all_data) ==
    Cardinality({all_data[k].original_parcel_id : k \in 1..Len(all_data)})

\* "total_addresses": len(search_addresses), one entry per record of all_data
total_addresses(all_data) == Len(all_data)

\* the address_index.json of IngestPipeline._create_unified_indexes
\* (ingest_scripts.py) for all_data = city_data + county_data
address_index_data(all_data) ==
    json_dict(
        [addresses |->
             json_list([k \in 1..Len(all_data) |->
                 json_dict([display_name |-> Py("str", all_data[k].full_address),
                            parcel_id |-> Py("str", all_data[k].id),
                            region |-> Py("str", all_data[k].region),
                            latitude |-> Py("float", all_data[k].latitude),
                            longitude |-> Py("float", all_data[k].longitude)])]),
         metadata |->
             json_dict([total_addresses |-> Py("int", total_addresses(all_data)),
                        build_time |-> Py("str", "2025-01-01T00:00:00"),
                        source |-> Py("str", "ingest_pipeline_unified"),
                        version |-> Py("str", "1.0")])])

\* the address_index.json of create_unified_data (the two scripts): the
\* search_index dict, id -> full_address
search_index_json(all_data) ==
    json_dict([id \in {all_data[k].id : k \in 1..Len(all_data)} |->
                  Py("str", (CHOOSE e \in search_index(all_data) : e.id = id).full_address)])

\* the records process_city_data / process_county_data of ingest_scripts.py
\* return for a table: its loops are those of ShapefileProcessor with the
\* centroid of the layer written as it is
ingest_scripts_records(region, rows) ==
    LET centroid(row) == [raised |-> "", lat |-> centroid_lat_lng(row.geometry)[1],
                          lng |-> centroid_lat_lng(row.geometry)[2]]
        iteration(row) == IF region = "city" THEN ShapefileProcessor_city_iteration(row, centroid(row))
                          ELSE ShapefileProcessor_county_iteration(row, centroid(row))
    IN  IF Len(rows) = 0 THEN <<>>
        ELSE IF Len(rows) = 1 THEN iteration(rows[1]).record
        ELSE iteration(rows[1]).record \o iteration(rows[2]).record

\* the tables whose records reach the index: none, one row, or the two rows
\* of a parcel drawn as two features
IndexTables ==
    [city |-> {<<>>, <<CityRowOk, [CityRowOk EXCEPT !.geometry = AdjoiningPolygon]>>}
                  \cup {<<row>> : row \in {r \in CityRows : r.geometry.geom_type # "None"}},
     county |-> {<<>>, <<CountyRowOk, [CountyRowOk EXCEPT !.geometry = AdjoiningPolygon]>>}
                    \cup {<<row>> : row \in CountyRows}]

\* an entry of addresses in the schema of the validator
address_entry(id, latitude, longitude) ==
    json_dict([id |-> id, full_address |-> Py("str", "123 N Main St., St. Louis, MO 63101"),
               region |-> Py("str", "St. Louis City"),
               latitude |-> latitude, longitude |-> longitude])

index_json(addresses, metadata) ==
    json_dict([addresses |-> json_list(addresses), metadata |-> metadata])

index_metadata(total) ==
    json_dict([region |-> Py("str", "stl_city"), total_addresses |-> total,
               build_time |-> Py("str", "2025-01-01T00:00:00"),
               source |-> Py("str", "ingest_pipeline"), version |-> Py("str", "1.0")])

\* coordinate values a file can hold: degrees, degrees out of range,
\* projected metres of either sign, NaN, and a string
Coordinates ==
    {Py("float", 3863), Py("float", -9019), Py("float", 9100), Py("float", -9100),
     Py("float", 18100), Py("float", -18100), Py("float", 427800667),
     Py("float", -427800667), Py("float", 74001333), Py("nan", 0), Py("str", "38.63")}

\* files handed to the validator that no run of the pipeline wrote
ValidatorFiles ==
    {index_json(<<address_entry(Py("str", "10"), lat, lon)>>, index_metadata(Py("int", 1))) :
        lat \in Coordinates, lon \in Coordinates}
    \cup {index_json([k \in 1..n |-> address_entry(Py("str", "10"), Py("float", 3863),
                                                    Py("float", -9019))],
                     index_metadata(total)) :
             n \in {0, 1, 2}, total \in {Py("int", 0), Py("int", 1), Py("int", 2), Py("str", "1")}}
    \cup {index_json([k \in 1..101 |-> address_entry(Py("str", "10"),
                                                      IF k = 101 THEN last ELSE Py("float", 3863),
                                                      Py("float", -9019))],
                     index_metadata(Py("int", 101))) :
             last \in {Py("float", 3863), Py("float", 9100), Py("float", 427800667)}}
    \cup {index_json(<<address_entry(id, Py("float", 3863), Py("float", -9019))>>,
                     index_metadata(Py("int", 1))) :
             id \in {Py("str", ""), Py("str", " "), Py("int", 10), Py("none", 0)}}
    \cup {index_json(<<Py("str", "10")>>, index_metadata(Py("int", 1))),
          index_json(<<>>, Py("none", 0)),
          json_list(<<>>),
          json_dict([addresses |-> json_list(<<>>)]),
          json_dict([metadata |-> index_metadata(Py("int", 0))]),
          json_dict([addresses |-> Py("none", 0), metadata |-> index_metadata(Py("int", 0))])}

\* either a run is about to build its index from the records of two tables,
\* or a file is already there for the validator
InitIndex ==
    /\ impl \in {"data", "storage", "ingest_scripts"}
    /\ \/ /\ \E city \in IndexTables.city, county \in IndexTables.county :
                results = [city |-> IF impl = "ingest_scripts"
                                    THEN ingest_scripts_records("city", city)
                                    ELSE IF Len(city) = 0 THEN <<>>
                                    ELSE process_city_iteration(city[1]).record,
                           county |-> IF impl = "ingest_scripts"
                                      THEN ingest_scripts_records("county", county)
                                      ELSE IF Len(county) = 0 THEN <<>>
                                      ELSE process_county_iteration(county[1]).record]
          /\ index_file = "none"
          /\ pc = "indexes"
       \/ /\ impl = "ingest_scripts"
          /\ results = [city |-> <<>>, county |-> <<>>]
          /\ index_file \in ValidatorFiles
          /\ pc = "validate"
    /\ validation = <<>>
    /\ files = [city |-> CityFiles, county |-> CountyFiles]
    /\ layer = NominalLayer
    /\ gdf_len = [city |-> 0, county |-> 0]
    /\ idx = [city |-> 0, county |-> 0]
    /\ last_row = [region |-> "none"]
    /\ geometry_data = [city |-> {}, county |-> {}]
    /\ address_stats = InitialStats
    /\ anomaly_log = <<>>
    /\ console = {}
    /\ crs_used = [city |-> "none", county |-> "none"]
    /\ attempted = {}
    /\ row_error = <<>>
    /\ errors = <<>>
    /\ unified = <<>>
    /\ addr_in = ""
    /\ addr_out = <<>>
    /\ batch = <<>>
    /\ order_runs = <<>>
    /\ runs = 1
    /\ args = <<>>
    /\ ret = <<>>
    /\ calls = <<>>
    /\ cdn = {}

\* IngestPipeline._create_unified_indexes of ingest_scripts.py: nothing is
\* written when there is no data
create_unified_indexes ==
    /\ impl = "ingest_scripts" /\ pc = "indexes"
    /\ IF results.city \o results.county = <<>>
       THEN index_file' = index_file /\ pc' = "done"
       ELSE /\ index_file' = address_index_data(results.city \o results.county)
            /\ pc' = "validate"
    /\ UNCHANGED <<impl, files, layer, gdf_len, idx, last_row, results, geometry_data,
                   address_stats, anomaly_log, console, crs_used, attempted, row_error,
                   errors, unified, addr_in, addr_out, batch, order_runs, runs, validation,
                   args, ret, calls, cdn>>

\* create_unified_data of the scripts writing address_index.json
dump_search_index ==
    /\ impl \in {"data", "storage"} /\ pc = "indexes"
    /\ IF results.city \o results.county = <<>>
       THEN index_file' = index_file /\ pc' = "done"
       ELSE /\ index_file' = search_index_json(results.city \o results.county)
            /\ pc' = "validate"
    /\ UNCHANGED <<impl, files, layer, gdf_len, idx, last_row, results, geometry_data,
                   address_stats, anomaly_log, console, crs_used, attempted, row_error,
                   errors, unified, addr_in, addr_out, batch, order_runs, runs, validation,
                   args, ret, calls, cdn>>

\* address-index-schema-validator.py run on the file
validate_index_file ==
    /\ pc = "validate"
    /\ validation' = <<validate_address_index_file(index_file)>>
    /\ pc' = "done"
    /\ UNCHANGED <<impl, files, layer, gdf_len, idx, last_row, results, geometry_data,
                   address_stats, anomaly_log, console, crs_used, attempted, row_error,
                   errors, unified, addr_in, addr_out, batch, order_runs, runs, index_file,
                   args, ret, calls, cdn>>

NextIndex ==
    \/ create_unified_indexes
    \/ dump_search_index
    \/ validate_index_file

SpecIndex == InitIndex /\ [][NextIndex]_vars

(***************************************************************************)
(* The helper functions called on their own, the way the unit tests call   *)
(* them: args holds the function and its arguments, ret the value that     *)
(* came back.                                                              *)
(***************************************************************************)
\* land_area, building_sqft (hundredths of a square foot) and property_type
AreaArguments ==
    {[f |-> "calculate_landscapable_area", land_area |-> land_area,
      building_sqft |-> building_sqft, property_type |-> property_type] :
        land_area \in {Num(0), Num(100000), Num(500000), Num(2000000)},
        building_sqft \in {NaN, Num(-50000), Num(0), Num(80000), Num(300000), Num(2500000)},
        property_type \in {"residential", "commercial", "industrial", "other"}}

ZipArguments ==
    {[f |-> "is_valid_zip", value |-> value] :
        value \in {Py("none", 0), Py("int", 12345)}
                  \cup {Py("str", s) : s \in {"12345", "12345-6789", "1234", "123456", "12345-678",
                                              "ABCDE", "12345-ABCD", "", " 12345 ", "12345 ",
                                              "  12345-6789", "1 2345", "12345-", " "}}}

PoBoxArguments ==
    {[f |-> "is_po_box", value |-> value] :
        value \in {Py("none", 0), Py("int", 123)}
                  \cup {Py("str", s) : s \in {"P.O. BOX 1234", "PO BOX 567", "BOX 891011", "PMB 1212",
                                              "123 Main St", "", "po box 9", "Pmb 7",
                                              "5 OAK DR, KIRKWOOD, MO 63122"}}}

\* rows whose assessment, building and lot columns reach every band of the
\* affluence score
ScoredCityRows ==
    {[CityRowOk EXCEPT !.ASMTTOTAL = Py("int", total), !.ASMTLAND = Py("int", values[1]),
                       !.ASMTIMPROV = Py("int", values[2]), !.BDG1AREA = Py("int", area),
                       !.BDG1YEAR = Py("int", year),
                       !.geometry = [ParcelPolygon EXCEPT !.area = Num(square_metres)]] :
        total \in {50000, 800000},
        values \in {<<50000, 10000>>, <<10000, 150000>>},
        area \in {1000, 5000},
        year \in {1980, 2015},
        square_metres \in {200, 5000}}

ScoredCountyRows ==
    {[CountyRowOk EXCEPT !.TOTAPVAL = Py("int", total), !.LAND_VAL = Py("int", values[1]),
                         !.IMPROV_VAL = Py("int", values[2]), !.RESQFT = Py("int", area),
                         !.TENURE = Py("str", owner[1]), !.OWN_STATE = Py("str", owner[2]),
                         !.geometry = [ParcelPolygon EXCEPT !.area = Num(square_metres)]] :
        total \in {50000, 800000},
        values \in {<<50000, 10000>>, <<10000, 150000>>},
        area \in {1000, 5000},
        owner \in {<<"OWNER", "MO">>, <<"", "IL">>},
        square_metres \in {200, 5000}}

RowArguments ==
    {[f |-> "process_row", region |-> "city", row |-> row] : row \in ScoredCityRows}
    \cup {[f |-> "process_row", region |-> "county", row |-> row] : row \in ScoredCountyRows}

\* FIELD_MAPPINGS[region][category][field]: the column, or the exception the
\* subscripts raise: KeyError for a key a dict lacks, TypeError for a str or
\* None subscript of a category that is itself a column name
field_name(mappings, region, category, field) ==
    IF region \notin DOMAIN mappings THEN [raised |-> "KeyError", column |-> ""]
    ELSE IF category \notin DOMAIN mappings[region] THEN [raised |-> "KeyError", column |-> ""]
    ELSE IF "column" \in DOMAIN mappings[region][category]
    THEN [raised |-> "TypeError", column |-> ""]
    ELSE IF field \notin DOMAIN mappings[region][category]
    THEN [raised |-> "KeyError", column |-> ""]
    ELSE [raised |-> "", column |-> mappings[region][category][field]]

\* except (KeyError, TypeError), narrowed to the first of the two
except_KeyError == {"KeyError"}

\* except (KeyError, TypeError)
except_get_field_value == {"KeyError", "TypeError"}

\* get_field_value with its try block: the value returned, or the exception
\* that leaves the function
try_get_field_value(row, region, category, field, default) ==
    LET name == field_name(FIELD_MAPPINGS, region, category, field)
    IN  IF name.raised = "" THEN [raised |-> "", value |-> row_get(row, name.column, default)]
        ELSE IF name.raised \in except_get_field_value
        THEN [raised |-> "", value |-> default]
        ELSE [raised |-> name.raised, value |-> default]

\* rows of either table, one of them without the assessment and ZIP columns
FieldArguments ==
    {[f |-> "get_field_value", row |-> row, region |-> region, category |-> category,
      field |-> field, default |-> default] :
        row \in {CityRowOk, CountyRowOk,
                 [c \in {"HANDLE", "SITEADDR"} |-> CityRowOk[c]]},
        region \in {"city", "county", "state"},
        category \in {"assessment", "address", "owner", "parcel_id", "property_class", "zoning"},
        field \in {"total", "zip", "tenure", "full", "None"},
        default \in {Py("none", 0), Py("str", "")}}

\* street_words and the index of the word the loop is at
StreetWordArguments ==
    {[f |-> "standardize_street_word", street_words |-> [k \in 1..Len(ws) |-> Chars(ws[k])],
      i |-> i] :
        ws \in {<<"123", "1ST">>, <<"123", "1ST", "AVE">>, <<"123", "2ND">>, <<"123", "2ND", "ST">>,
                <<"5", "3RD", "PLACE">>, <<"4TH">>, <<"N", "11TH", "oak">>, <<"21ST", "Dr.">>,
                <<"100.0", "MAIN", "street">>},
        i \in 1..3} \ {a \in [f : {"standardize_street_word"},
                               street_words : {<<Chars("4TH")>>, <<Chars("123"), Chars("1ST")>>,
                                               <<Chars("123"), Chars("2ND")>>,
                                               <<Chars("21ST"), Chars("Dr.")>>},
                               i : 2..3] : a.i > Len(a.street_words)}

MockArguments == {[f |-> "create_mock_data", region |-> region] : region \in {"city", "county"}}

InitCalls ==
    /\ impl \in {"data", "pipeline"}
    /\ args \in AreaArguments \cup ZipArguments \cup PoBoxArguments \cup RowArguments
                \cup FieldArguments \cup StreetWordArguments
                \cup (IF impl = "pipeline" THEN MockArguments ELSE {})
    /\ ret = <<>>
    /\ calls = <<>>
    /\ cdn = {}
    /\ pc = "call"
    /\ files = [city |-> CityFiles, county |-> CountyFiles]
    /\ layer = NominalLayer
    /\ gdf_len = [city |-> 0, county |-> 0]
    /\ idx = [city |-> 0, county |-> 0]
    /\ last_row = [region |-> "none"]
    /\ results = [city |-> <<>>, county |-> <<>>]
    /\ geometry_data = [city |-> {}, county |-> {}]
    /\ address_stats = InitialStats
    /\ anomaly_log = <<>>
    /\ console = {}
    /\ crs_used = [city |-> "none", county |-> "none"]
    /\ attempted = {}
    /\ row_error = <<>>
    /\ errors = <<>>
    /\ unified = <<>>
    /\ addr_in = ""
    /\ addr_out = <<>>
    /\ batch = <<>>
    /\ order_runs = <<>>
    /\ runs = 1
    /\ index_file = "none"
    /\ validation = <<>>

\* a call returns: ret holds the value
Return(value) ==
    /\ pc = "call"
    /\ ret' = <<value>>
    /\ pc' = "returned"
    /\ UNCHANGED <<impl, files, layer, gdf_len, idx, last_row, results, geometry_data,
                   address_stats, anomaly_log, console, crs_used, attempted, row_error,
                   errors, unified, addr_in, addr_out, batch, order_runs, runs, index_file,
                   validation, args, calls, cdn>>

\* calculate_enhanced_landscapable_area / ShapefileProcessor.calculate_landscapable_area
call_calculate_landscapable_area ==
    /\ args.f = "calculate_landscapable_area"
    /\ Return(calculate_enhanced_landscapable_area(args.land_area, args.building_sqft,
                                                   args.property_type))

\* is_valid_zip, whose first line refuses a value that is not a str
call_is_valid_zip ==
    /\ args.f = "is_valid_zip"
    /\ Return(args.value.t = "str" /\ is_valid_zip(args.value.s))

\* is_po_box, whose first line refuses a value that is not a str
call_is_po_box ==
    /\ args.f = "is_po_box"
    /\ Return(/\ args.value.t = "str"
              /\ IF impl = "pipeline" THEN ShapefileProcessor_is_po_box(args.value.s)
                 ELSE is_po_box(args.value.s))

\* get_field_value / ShapefileProcessor.get_field_value
call_get_field_value ==
    /\ args.f = "get_field_value"
    /\ Return(try_get_field_value(args.row, args.region, args.category, args.field,
                                  args.default))

\* one iteration of the loop over street_words in standardize_address:
\* the text appended to standardized_street_words
call_standardize_street_word ==
    /\ args.f = "standardize_street_word"
    /\ Return(standardize_street_word(args.street_words, args.i))

\* one iteration of a row loop: the records it appended to results
call_process_row ==
    /\ args.f = "process_row"
    /\ \E centroid \in ShapefileProcessor_centroid(args.row.geometry) :
           Return(IF impl = "pipeline"
                  THEN IF args.region = "city"
                       THEN ShapefileProcessor_city_iteration(args.row, centroid).record
                       ELSE ShapefileProcessor_county_iteration(args.row, centroid).record
                  ELSE IF args.region = "city"
                       THEN process_city_iteration(args.row).record
                       ELSE process_county_iteration(args.row).record)

\* _create_mock_city_data / _create_mock_county_data: the list of records
call_create_mock_data ==
    /\ args.f = "create_mock_data"
    /\ Return(IF args.region = "city"
              THEN [k \in 1..num_parcels |-> mock_city_record(k - 1)]
              ELSE [k \in 1..num_parcels |-> mock_county_record(k - 1)])

NextCalls ==
    \/ call_calculate_landscapable_area
    \/ call_is_valid_zip
    \/ call_is_po_box
    \/ call_get_field_value
    \/ call_standardize_street_word
    \/ call_process_row
    \/ call_create_mock_data

SpecCalls == InitCalls /\ [][NextCalls]_vars

(***************************************************************************)
(* The CDN status checker of the two pipelines (ingest_shapes.py is impl   *)
(* "pipeline", ingest_scripts.py is impl "ingest_scripts").  A listing is  *)
(* the set of pathnames that list_files returned for the prefix cdn/.      *)
(***************************************************************************)
index_names == <<"address-index", "parcel-metadata", "parcel-geometry">>

\* the characters of pathnames in the order of their code points
CodePoints == Chars("-./0123456789") \o Alphabet.upper \o <<"_">> \o Alphabet.lower

\* a < b for two Python strings
RECURSIVE str_lt(_, _)
str_lt(a, b) ==
    IF b = <<>> THEN FALSE
    ELSE IF a = <<>> THEN TRUE
    ELSE IF a[1] = b[1] THEN str_lt(Tail(a), Tail(b))
    ELSE IndexIn(CodePoints, a[1]) < IndexIn(CodePoints, b[1])

\* sorted(strings)[-1]
last_sorted(strings) == CHOOSE x \in strings : \A y \in strings : y = x \/ str_lt(y, x)

\* v\d+\.\d+(?:\.\d+|_\d+(?:_\w+)*): \w holds the underscore, so a run of
\* (?:_\w+) groups matches what one _\w+ matches
version_patterns ==
    LET major_minor == Lit("v") \o <<Re("digit", "+")>> \o Lit(".") \o <<Re("digit", "+")>>
    IN  {major_minor \o Lit(".") \o <<Re("digit", "+")>>,
         major_minor \o Lit("_") \o <<Re("digit", "+")>>,
         major_minor \o Lit("_") \o <<Re("digit", "+")>> \o Lit("_") \o <<Re("word", "+")>>}

\* re.search(rf'{index_name}-(v...)\.json\.gz$', filename): group 1 of the
\* leftmost match in a one-element sequence, <<>> without a match
version_match(index_name, filename) ==
    LET starts == {i \in 1..(Len(filename) - Len(index_name)) :
                      /\ SubSeq(filename, i, i + Len(index_name)) = Chars(index_name \o "-")
                      /\ \E p \in version_patterns :
                             (Len(filename) + 1) \in
                                 MatchEnds(filename, i + Len(index_name) + 1,
                                           p \o Lit(".json.gz"))}
    IN  IF starts = {} THEN <<>>
        ELSE <<SubSeq(filename, SetMin(starts) + Len(index_name) + 1, Len(filename) - 8)>>

endswith(cs, suffix) ==
    Len(cs) >= Len(suffix) /\ SubSeq(cs, Len(cs) - Len(suffix) + 1, Len(cs)) = suffix

\* filename.startswith(f"{index_name}-v") and filename.endswith(".json.gz")
is_index_file(filename, index_name) ==
    startswith(filename, {index_name \o "-v"}) /\ endswith(filename, Chars(".json.gz"))

\* pathname.replace('cdn/', '')
clean_filename(pathname) == replace(pathname, Chars("cdn/"), <<>>)

\* what the loop over the files appends to versions: one entry for every
\* file that is a versioned index, under the version read from its name
index_version(filename, index_name) ==
    IF is_index_file(filename, index_name) THEN version_match(index_name, filename) ELSE <<>>

versioned_entries(file_list) ==
    {[pathname |-> p[1], index_name |-> index_names[p[2]],
      version |-> index_version(clean_filename(p[1]), index_names[p[2]])[1]] :
        p \in {q \in file_list \X (1..3) :
                  index_version(clean_filename(q[1]), index_names[q[2]]) # <<>>}}

\* the versions with len(indexes) >= 3
complete_versions(entries) ==
    {v \in {e.version : e \in entries} : Cardinality({e \in entries : e.version = v}) >= 3}

\* _analyze_vercel_indexes: None is <<>>, a version v is <<v>>
analyze_vercel_indexes(file_list) ==
    LET entries == versioned_entries(file_list)
        complete == complete_versions(entries)
        latest_version == IF complete = {} THEN <<>> ELSE <<last_sorted(complete)>>
    IN  [available_versions |-> {e.version : e \in entries},
         complete_versions |-> complete,
         latest_version |-> latest_version,
         complete_set |-> latest_version # <<>>,
         index_count |-> Cardinality({e \in entries : <<e.version>> = latest_version})]

\* the files _analyze_firebase_indexes takes as unversioned: not a versioned
\* index, and named exactly <index_name>.json.gz
unversioned_files(file_list) ==
    {p \in file_list \X (1..3) :
        /\ versioned_entries({p[1]}) = {}
        /\ clean_filename(p[1]) = Chars(index_names[p[2]] \o ".json.gz")}

\* _analyze_firebase_indexes: directory entries are skipped, and three
\* unversioned files stand in for a complete version
analyze_firebase_indexes(file_list) ==
    LET listed == {f \in file_list : clean_filename(f) # <<>> /\ ~endswith(clean_filename(f), <<"/">>)}
        entries == versioned_entries(listed)
        complete == complete_versions(entries)
        unversioned == unversioned_files(listed)
        latest_version == IF complete # {} THEN <<last_sorted(complete)>>
                          ELSE IF Cardinality(unversioned) >= 3 THEN <<Chars("unversioned")>>
                          ELSE <<>>
    IN  [available_versions |-> {e.version : e \in entries},
         complete_versions |-> complete,
         latest_version |-> latest_version,
         complete_set |-> latest_version # <<>>,
         index_count |-> IF latest_version = <<Chars("unversioned")>>
                         THEN Cardinality(unversioned)
                         ELSE Cardinality({e \in entries : <<e.version>> = latest_version}),
         unversioned_files |-> {index_names[p[2]] : p \in unversioned}]

\* a check of the local data that looks at the city's shapefile only
check_city_data(local) ==
    {"shp", "dbf"} \subseteq local.city

\* _check_local_data: the .shp and .dbf of both regions are in src/data
check_local_data(local) ==
    {"shp", "dbf"} \subseteq local.city /\ {"shp", "dbf"} \subseteq local.county

\* the body of check_cdn_status once the two listings are analysed
cdn_status(vercel_available, vercel_indexes, firebase_available, firebase_indexes, local) ==
    LET status == [vercel_available |-> vercel_available,
                   firebase_available |-> FALSE,
                   vercel_indexes |-> IF vercel_available THEN <<vercel_indexes>> ELSE <<>>,
                   firebase_indexes |-> <<>>,
                   latest_version |-> IF vercel_available THEN vercel_indexes.latest_version
                                      ELSE <<>>,
                   needs_rebuild |-> TRUE,
                   recommendation |-> "build_all"]
    IN  IF vercel_available /\ vercel_indexes.complete_set
        THEN [status EXCEPT !.needs_rebuild = FALSE, !.recommendation = "use_vercel"]
        ELSE IF firebase_available /\ firebase_indexes.complete_set
        THEN [status EXCEPT !.firebase_available = TRUE,
                            !.firebase_indexes = <<firebase_indexes>>,
                            !.latest_version = firebase_indexes.latest_version,
                            !.needs_rebuild = FALSE, !.recommendation = "use_firebase"]
        ELSE [local_data_available |-> check_local_data(local)]
             @@ [status EXCEPT !.firebase_available = firebase_available,
                               !.firebase_indexes = IF firebase_available
                                                    THEN <<firebase_indexes>> ELSE <<>>,
                               !.recommendation = IF check_local_data(local)
                                                  THEN "rebuild_from_local"
                                                  ELSE "critical_failure"]

\* check_cdn_status.  vercel and firebase are what the two list calls did:
\* [raised |-> TRUE] or [raised |-> FALSE, files |-> the listing]
check_cdn_status(vercel, firebase, local) ==
    cdn_status(~vercel.raised, analyze_vercel_indexes(vercel.files),
               ~firebase.raised, analyze_firebase_indexes(firebase.files), local)

(***************************************************************************)
(* The version clean-up of ingest_shapes.py, which step 4 runs after an    *)
(* upload.                                                                 *)
(***************************************************************************)
\* \w{6,8}
word_6_to_8 == Times("word", 6) \o <<Re("word", "?"), Re("word", "?")>>

\* re.search(r'-(\d{8}-\w{6,8})\.json\.gz$', filename): group 1 of the
\* leftmost match in a one-element sequence, <<>> without a match
dated_version_match(filename) ==
    LET starts == {i \in 1..Len(filename) :
                      /\ filename[i] = "-"
                      /\ (Len(filename) + 1) \in
                             MatchEnds(filename, i + 1,
                                       Times("digit", 8) \o Lit("-") \o word_6_to_8
                                           \o Lit(".json.gz"))}
    IN  IF starts = {} THEN <<>>
        ELSE <<SubSeq(filename, SetMin(starts) + 1, Len(filename) - 8)>>

\* version_files of cleanup_old_cdn_versions: the listed files by version
version_files(listing) ==
    [version \in UNION {{dated_version_match(f)[k] : k \in 1..Len(dated_version_match(f))} :
                            f \in listing}
        |-> {f \in listing : dated_version_match(f) = <<version>>}]

\* sorted(version_files.keys(), reverse=True)[keep_versions:]
versions_to_delete(listing, keep_versions) ==
    {v \in DOMAIN version_files(listing) :
        Cardinality({w \in DOMAIN version_files(listing) : str_lt(v, w)}) >= keep_versions}

\* the files cleanup_old_cdn_versions(keep_versions) asks the store to delete
old_version_files(listing, keep_versions) ==
    UNION {version_files(listing)[v] : v \in versions_to_delete(listing, keep_versions)}

(***************************************************************************)
(* IngestPipeline.run_intelligent_pipeline of the two pipelines, one       *)
(* action for every method it calls.  args holds what the run finds        *)
(* outside the program; cdn is the blob store and the backup store.        *)
(***************************************************************************)
\* the files the last two globs of step 4 look for in src/data/tmp
RegionalFiles ==
    {"stl_city-parcel_metadata", "stl_city-parcel_geometry"}

\* remote_path of step 4 in ingest_shapes.py
remote_path(base_name, timestamp, version_hash) ==
    Chars("cdn/" \o base_name \o "-v" \o timestamp \o "-" \o version_hash \o ".json.gz")

\* blob_path of step 4 in ingest_scripts.py
blob_path(filename, current_version) ==
    Chars("cdn/") \o replace(Chars(filename), Chars(".json.gz"), <<>>) \o Chars("-")
        \o Chars(current_version) \o Chars(".json.gz")

version_manifest == Chars("cdn/version-manifest.json")

expected_files == <<"address-index.json.gz", "parcel-metadata.json.gz", "parcel-geometry.json.gz">>

\* blobs of earlier runs of ingest_shapes.py, one version a day
UploadedBefore(days) ==
    {remote_path(b, "2025060" \o d, "0a1b2c3d") : b \in {"stl_city-parcel_metadata"}, d \in days}

\* a complete index set of one version, as ingest_scripts.py uploads it
IndexSet(version) == {blob_path(expected_files[k], version) : k \in 1..3}

PipelineRuns ==
    [f : {"run_intelligent_pipeline"},
     dataset_size : {"small", "medium", "large"},
     timestamp : {"20250610"},
     version_hash : {"0a1b2c3d"},
     current_version : {"v1.20250610_120000"},
     regional_files : {{}, RegionalFiles},
     tmp_bundles : BOOLEAN,
     temp_files_ok : BOOLEAN,
     firebase_initialized : BOOLEAN]

Stores ==
    {[vercel |-> {}, firebase |-> {}],
     [vercel |-> UploadedBefore({"1", "2", "3", "4"}) \cup {version_manifest}, firebase |-> {}],
     [vercel |-> IndexSet("v0.1.0") \cup {version_manifest}, firebase |-> IndexSet("v0.1.0")],
     [vercel |-> {blob_path(expected_files[1], "v0.1.0")}, firebase |-> IndexSet("v0.1.0")]}

LocalFiles ==
    {[city |-> CityFiles, county |-> CountyFiles], [city |-> {"shx"}, county |-> CountyFiles]}

InitPipeline ==
    /\ impl \in {"pipeline", "ingest_scripts"}
    /\ args \in IF impl = "pipeline"
                THEN {a \in PipelineRuns : a.temp_files_ok /\ ~a.firebase_initialized}
                ELSE {a \in PipelineRuns : a.regional_files = {} /\ ~a.tmp_bundles}
    /\ files \in LocalFiles
    /\ cdn \in IF impl = "pipeline" THEN {s \in Stores : s.firebase = {}} ELSE Stores
    /\ pc = "try"
    /\ calls = <<>>
    /\ errors = <<>>
    /\ layer = NominalLayer
    /\ gdf_len = [city |-> 0, county |-> 0]
    /\ idx = [city |-> 0, county |-> 0]
    /\ last_row = [region |-> "none"]
    /\ results = [city |-> <<>>, county |-> <<>>]
    /\ geometry_data = [city |-> {}, county |-> {}]
    /\ address_stats = InitialStats
    /\ anomaly_log = <<>>
    /\ console = {}
    /\ crs_used = [city |-> "none", county |-> "none"]
    /\ attempted = {}
    /\ row_error = <<>>
    /\ unified = <<>>
    /\ addr_in = ""
    /\ addr_out = <<>>
    /\ batch = <<>>
    /\ order_runs = <<>>
    /\ runs = 1
    /\ index_file = "none"
    /\ validation = <<>>
    /\ ret = <<>>

\* a method of the pipeline was called: what it returned ("raised" when it
\* did not return), the blobs it stored and the blobs it deleted
Called(method, result, uploaded, deleted) ==
    calls' = Append(calls, [method |-> method, result |-> result,
                            uploaded |-> uploaded, deleted |-> deleted])

\* the variables no method of the pipeline run touches
pipeline_frame ==
    UNCHANGED <<impl, files, layer, gdf_len, idx, last_row, results, geometry_data,
                address_stats, anomaly_log, console, crs_used, attempted, row_error,
                unified, addr_in, addr_out, batch, order_runs, runs, index_file,
                validation, args, ret>>

\* an exception that leaves run_intelligent_pipeline with no finally clause
\* in its way
Propagated(method, message) ==
    /\ Called(method, "raised", {}, {})
    /\ pc' = "returned"
    /\ UNCHANGED <<errors, cdn>>
    /\ pipeline_frame

\* an exception leaves the try block: the except clause of
\* run_intelligent_pipeline records it and the finally clause is next
Raised(method, message) ==
    /\ Called(method, "raised", {}, {})
    /\ errors' = Append(errors, "Pipeline failure: " \o message)
    /\ pc' = "finally"
    /\ cdn' = cdn
    /\ pipeline_frame

\* where the try block goes on after _execute_full_rebuild
after_rebuild == IF impl = "pipeline" THEN "finally" ELSE "verify_final"

Bool(b) == IF b THEN "True" ELSE "False"

\* ingest_scripts.py: run_intelligent_pipeline asks the checker and branches
\* on the recommendation
IngestPipeline_check_cdn_status ==
    /\ impl = "ingest_scripts" /\ pc = "try"
    /\ \E vercel_raised \in BOOLEAN, firebase_raised \in BOOLEAN :
           LET status == check_cdn_status([raised |-> vercel_raised, files |-> cdn.vercel],
                                          [raised |-> firebase_raised, files |-> cdn.firebase],
                                          files)
           IN  /\ Called("check_cdn_status", status.recommendation, {}, {})
               /\ pc' = CASE status.recommendation = "use_vercel" -> "verify_existing"
                          [] status.recommendation = "use_firebase" -> "sync"
                          [] status.recommendation = "rebuild_from_local" -> "rebuild"
                          [] status.recommendation = "partial_recovery" -> "partial"
                          [] OTHER -> "critical"
    /\ UNCHANGED <<errors, cdn>>
    /\ pipeline_frame

\* _verify_existing_indexes("vercel", latest_version): prints only
verify_existing_indexes ==
    /\ impl = "ingest_scripts" /\ pc = "verify_existing"
    /\ Called("_verify_existing_indexes", "None", {}, {})
    /\ pc' = "verify_final"
    /\ UNCHANGED <<errors, cdn>>
    /\ pipeline_frame

\* _sync_firebase_to_vercel(latest_version): prints only, and so succeeds
sync_firebase_to_vercel ==
    /\ impl = "ingest_scripts" /\ pc = "sync"
    /\ Called("_sync_firebase_to_vercel", "None", {}, {})
    /\ pc' = "verify_final"
    /\ UNCHANGED <<errors, cdn>>
    /\ pipeline_frame

\* _handle_critical_failure, after which run_intelligent_pipeline returns
handle_critical_failure ==
    /\ impl = "ingest_scripts" /\ pc = "critical"
    /\ Called("_handle_critical_failure", "None", {}, {})
    /\ errors' = Append(errors, "Critical failure - no data sources available")
    /\ pc' = "finally"
    /\ cdn' = cdn
    /\ pipeline_frame

\* _execute_full_rebuild up to step 1: ingest_shapes.py raises without the
\* local shapefiles, ingest_scripts.py tries to download them first
execute_full_rebuild ==
    /\ \/ impl = "pipeline" /\ pc = "try"
       \/ impl = "ingest_scripts" /\ pc = "rebuild"
    /\ IF local_available
       THEN /\ Called("_execute_full_rebuild", "step_1", {}, {})
            /\ pc' = "step_1"
            /\ UNCHANGED <<errors, cdn>>
            /\ pipeline_frame
       ELSE IF impl = "pipeline"
       THEN Raised("_execute_full_rebuild",
                   "Local shapefiles required for processing - no remote fallback")
       ELSE \E download_success \in BOOLEAN :
                IF download_success
                THEN /\ Called("_execute_full_rebuild", "step_1", {}, {})
                     /\ pc' = "step_1"
                     /\ UNCHANGED <<errors, cdn>>
                     /\ pipeline_frame
                ELSE Raised("_execute_full_rebuild",
                            "Failed to obtain shapefiles from local or remote sources")

\* step_1_process_regional_data: it raises what a row loop raises, and else
\* returns the files it wrote, none when neither region gave a record
step_1_process_regional_data ==
    /\ impl \in {"pipeline", "ingest_scripts"} /\ pc = "step_1"
    /\ \E outcome \in {"raised", "[]", "files"} :
           IF outcome = "raised"
           THEN Raised("step_1_process_regional_data", "row")
           ELSE /\ Called("step_1_process_regional_data", outcome, {}, {})
                /\ pc' = IF impl = "pipeline" THEN "step_2" ELSE "step_3"
                /\ UNCHANGED <<errors, cdn>>
                /\ pipeline_frame

\* the latest result of a method in calls
result_of(method) ==
    LET at == {k \in 1..Len(calls) : calls[k].method = method}
    IN  calls[SetMax(at)].result

\* the FlexSearch bundles are in src/data/tmp: step 1 wrote them, or they
\* were there before the run
bundles_in_tmp == result_of("step_1_process_regional_data") = "files" \/ args.tmp_bundles

\* step_2_upload_cold_storage of ingest_shapes.py: the bundles go to
\* search/, not to cdn/; every exception is caught
step_2_upload_cold_storage ==
    /\ impl = "pipeline" /\ pc = "step_2"
    /\ \E upload_success \in BOOLEAN :
           Called("step_2_upload_cold_storage", Bool(bundles_in_tmp /\ upload_success), {}, {})
    /\ pc' = "step_3"
    /\ UNCHANGED <<errors, cdn>>
    /\ pipeline_frame

\* step_3_build_flexsearch_indexes and the branch of _execute_full_rebuild
\* on its result
step_3_build_flexsearch_indexes ==
    /\ impl \in {"pipeline", "ingest_scripts"} /\ pc = "step_3"
    /\ \E built \in (IF impl = "pipeline" THEN {bundles_in_tmp} ELSE BOOLEAN) :
           /\ Called("step_3_build_flexsearch_indexes", Bool(built), {}, {})
           /\ IF built
              THEN pc' = "step_4" /\ errors' = errors
              ELSE pc' = after_rebuild /\ errors' = Append(errors, "FlexSearch build failed")
    /\ cdn' = cdn
    /\ pipeline_frame

\* step_4_upload_cdn_files of ingest_shapes.py: every regional file found is
\* compressed and uploaded, then the manifest, then cleanup_old_cdn_versions
\* (keep_versions=3) when a file went up; a failed delete leaves the blob
shapes_step_4_upload_cdn_files ==
    /\ impl = "pipeline" /\ pc = "step_4"
    /\ \E uploaded_files \in SUBSET args.regional_files, manifest_uploaded \in BOOLEAN :
           LET uploaded == {remote_path(b, args.timestamp, args.version_hash) :
                                b \in uploaded_files}
                           \cup (IF uploaded_files # {} /\ manifest_uploaded
                                 THEN {version_manifest} ELSE {})
               listing == cdn.vercel \cup uploaded
               asked == IF uploaded_files # {} THEN old_version_files(listing, 3) ELSE {}
           IN  \E deleted \in SUBSET asked :
                   /\ cdn' = [cdn EXCEPT !.vercel = listing \ deleted]
                   /\ Called("step_4_upload_cdn_files",
                             Bool(args.regional_files = {} \/ uploaded_files # {}),
                             uploaded, deleted)
                   /\ errors' = errors
                        \o (IF uploaded_files # {} /\ ~manifest_uploaded
                            THEN <<"Failed to upload version manifest">> ELSE <<>>)
                        \o (IF args.regional_files # {} /\ uploaded_files = {}
                               /\ args.dataset_size = "large"
                            THEN <<"CDN upload failed for production dataset">> ELSE <<>>)
    /\ pc' = after_rebuild
    /\ pipeline_frame

\* step_4_upload_cdn_files of ingest_scripts.py: nothing for a dataset that
\* is not large or whose files fail the size check; else the three files go
\* to the blob store and the backup store, then the manifest
scripts_step_4_upload_cdn_files ==
    /\ impl = "ingest_scripts" /\ pc = "step_4"
    /\ IF args.dataset_size # "large"
       THEN /\ Called("step_4_upload_cdn_files", "True", {}, {})
            /\ UNCHANGED <<errors, cdn>>
       ELSE IF ~args.temp_files_ok
       THEN /\ Called("step_4_upload_cdn_files", "False", {}, {})
            /\ errors' = errors \o <<"File size verification failed for CDN upload">>
                         \o <<"CDN upload failed for production dataset">>
            /\ cdn' = cdn
       ELSE \E vercel_uploaded \in {{}, {1, 2}, {1, 2, 3}},
               firebase_uploaded \in (IF args.firebase_initialized THEN {{}, {1, 2, 3}} ELSE {{}}),
               vercel_available \in BOOLEAN, manifest_vercel \in BOOLEAN,
               manifest_firebase \in (IF args.firebase_initialized THEN BOOLEAN ELSE {FALSE}) :
                LET to_vercel == {blob_path(expected_files[k], args.current_version) :
                                      k \in IF vercel_available THEN vercel_uploaded ELSE {}}
                                 \cup (IF manifest_vercel THEN {version_manifest} ELSE {})
                    to_firebase == {blob_path(expected_files[k], args.current_version) :
                                        k \in firebase_uploaded}
                                   \cup (IF manifest_firebase THEN {version_manifest} ELSE {})
                    vercel_success == vercel_available /\ vercel_uploaded = {1, 2, 3}
                    failed == SelectSeq(<<1, 2, 3>>,
                                        LAMBDA k : vercel_available /\ k \notin vercel_uploaded)
                IN  /\ cdn' = [vercel |-> cdn.vercel \cup to_vercel,
                               firebase |-> cdn.firebase \cup to_firebase]
                    /\ Called("step_4_upload_cdn_files", Bool(vercel_success /\ manifest_vercel),
                              to_vercel \cup to_firebase, {})
                    /\ errors' = errors
                         \o [k \in 1..Len(failed) |->
                                "Failed to upload " \o Str(blob_path(expected_files[failed[k]],
                                                                     args.current_version))]
                         \o (IF vercel_success /\ manifest_vercel THEN <<>>
                             ELSE <<"CDN upload failed for production dataset">>)
    /\ pc' = after_rebuild
    /\ pipeline_frame

\* _verify_final_state of ingest_scripts.py asks the checker once more
verify_final_state ==
    /\ impl = "ingest_scripts" /\ pc = "verify_final"
    /\ \E vercel_raised \in BOOLEAN, firebase_raised \in BOOLEAN :
           LET final_status == check_cdn_status([raised |-> vercel_raised, files |-> cdn.vercel],
                                                [raised |-> firebase_raised, files |-> cdn.firebase],
                                                files)
           IN  /\ Called("_verify_final_state", final_status.recommendation, {}, {})
               /\ errors' = IF final_status.recommendation \in {"use_vercel", "use_firebase"}
                            THEN errors
                            ELSE Append(errors, "Final CDN state verification failed")
    /\ pc' = "finally"
    /\ cdn' = cdn
    /\ pipeline_frame

\* the finally clause, first half: step_5_cleanup removes the temp
\* directories and keeps every exception to itself
IngestPipeline_step_5_cleanup ==
    /\ impl \in {"pipeline", "ingest_scripts"} /\ pc = "finally"
    /\ \E cleanup_completed \in BOOLEAN :
           /\ Called("step_5_cleanup", Bool(cleanup_completed), {}, {})
           /\ errors' = IF impl = "ingest_scripts" /\ ~cleanup_completed
                        THEN Append(errors, "Cleanup error") ELSE errors
    /\ pc' = "report"
    /\ cdn' = cdn
    /\ pipeline_frame

\* the finally clause, second half: generate_report prints the summary and
\* run_intelligent_pipeline returns
IngestPipeline_generate_report ==
    /\ impl \in {"pipeline", "ingest_scripts"} /\ pc = "report"
    /\ Called("generate_report", "None", {}, {})
    /\ pc' = "returned"
    /\ UNCHANGED <<errors, cdn>>
    /\ pipeline_frame

NextPipeline ==
    \/ IngestPipeline_check_cdn_status
    \/ verify_existing_indexes
    \/ sync_firebase_to_vercel
    \/ handle_critical_failure
    \/ execute_full_rebuild
    \/ step_1_process_regional_data
    \/ step_2_upload_cold_storage
    \/ step_3_build_flexsearch_indexes
    \/ shapes_step_4_upload_cdn_files
    \/ scripts_step_4_upload_cdn_files
    \/ verify_final_state
    \/ IngestPipeline_step_5_cleanup
    \/ IngestPipeline_generate_report

SpecPipeline == InitPipeline /\ [][NextPipeline]_vars


(***************************************************************************)
(* The checker and the clean-up methods called on their own, on a store    *)
(* that earlier runs have filled.                                          *)
(***************************************************************************)
\* -v\d+\.\d+\.\d+\.json\.gz$ searched in a name: the version without its v
\* in a one-element sequence, <<>> without a match
semantic_version_match(filename) ==
    LET starts == {i \in 1..(Len(filename) - 1) :
                      /\ SubSeq(filename, i, i + 1) = Chars("-v")
                      /\ (Len(filename) + 1) \in
                             MatchEnds(filename, i + 2,
                                       <<Re("digit", "+")>> \o Lit(".") \o <<Re("digit", "+")>>
                                           \o Lit(".") \o <<Re("digit", "+")>> \o Lit(".json.gz"))}
    IN  IF starts = {} THEN <<>>
        ELSE <<SubSeq(filename, SetMin(starts) + 2, Len(filename) - 8)>>

\* [int(x) for x in v.split('.')] of two versions compared as Python lists
version_key_lt(v, w) ==
    LET a == [k \in 1..3 |-> int(split(v, ".")[k])]
        b == [k \in 1..3 |-> int(split(w, ".")[k])]
    IN  \/ a[1] < b[1]
        \/ a[1] = b[1] /\ a[2] < b[2]
        \/ a[1] = b[1] /\ a[2] = b[2] /\ a[3] < b[3]

\* list_existing_cdn_versions, as the set of the versions it returns
list_existing_cdn_versions(listing) ==
    UNION {{semantic_version_match(clean_filename(f))[k] :
                k \in 1..Len(semantic_version_match(clean_filename(f)))} : f \in listing}

\* existing_versions[:-n] of the sorted list
all_but_last(existing_versions, n) ==
    {v \in existing_versions :
        Cardinality({w \in existing_versions : version_key_lt(v, w)}) >= n}

\* the blobs cleanup_old_cdn_versions(current_version) of ingest_scripts.py
\* asks the store to delete
files_of_old_versions(listing, current_version) ==
    LET existing_versions == list_existing_cdn_versions(listing)
        versions == IF Cardinality(existing_versions) <= 2 THEN {}
                    ELSE IF current_version \in existing_versions
                    THEN all_but_last(existing_versions, 2)
                    ELSE all_but_last(existing_versions, 1)
    IN  {Chars("cdn/" \o index_names[k] \o "-v") \o v \o Chars(".json.gz") :
            k \in 1..3, v \in versions}

\* the blobs cleanup_non_versioned_cdn_files asks the store to delete: the
\* non-versioned and the legacy files, which is every listed blob but the
\* manifest and the names ending in -v<n>.<n>.<n>.json.gz
non_versioned_and_legacy_files(listing) ==
    {f \in listing :
        /\ clean_filename(f) # <<>>
        /\ clean_filename(f) # Chars("version-manifest.json")
        /\ semantic_version_match(clean_filename(f)) = <<>>}

\* listings of the blob store
Listings ==
    {{},
     IndexSet("v0.1.0") \cup {version_manifest},
     IndexSet("v0.9.0") \cup IndexSet("v0.10.0"),
     {blob_path(expected_files[1], "v0.2.0"), blob_path(expected_files[2], "v0.2.0")}
         \cup IndexSet("v0.1.0"),
     IndexSet("v1.20250610_120000") \cup IndexSet("v1.20250611_120000_test"),
     {Chars("cdn/" \o expected_files[k]) : k \in 1..3} \cup {Chars("cdn/")},
     {blob_path(expected_files[1], "v0.3.0"), version_manifest}}

\* what a list call of the checker did
ListCalls == {[raised |-> TRUE, files |-> {}]} \cup {[raised |-> FALSE, files |-> l] : l \in Listings}

CheckerArguments ==
    [f : {"check_cdn_status"}, vercel : ListCalls, firebase : ListCalls,
     local : LocalFiles \cup {[city |-> CityFiles, county |-> {"shp", "shx"}]}]
    \cup [f : {"_analyze_vercel_indexes", "_analyze_firebase_indexes"}, files : Listings]

\* blobs under names without the v, as the comment in cleanup_old_cdn_versions has them
DatedBlobs(days) ==
    {Chars("cdn/stl_city-parcel_metadata-2025060" \o d \o "-abc123.json.gz") : d \in days}

\* stores the clean-up methods are called on
CleanupStores ==
    {IndexSet("v0.1.0") \cup IndexSet("v0.2.0") \cup IndexSet("v0.3.0") \cup {version_manifest},
     IndexSet("v0.1.0") \cup IndexSet("v0.2.0"),
     IndexSet("v0.9.0") \cup IndexSet("v0.10.0") \cup IndexSet("v0.11.0"),
     IndexSet("v1.20250610_120000") \cup IndexSet("v0.1.0") \cup IndexSet("v0.2.0")
         \cup {version_manifest, Chars("cdn/address-index.json.gz")},
     UploadedBefore({"1", "2", "3", "4", "5"}) \cup {version_manifest},
     DatedBlobs({"1", "2", "3", "4"}) \cup UploadedBefore({"5"})}

CleanupArguments ==
    [f : {"cleanup_old_cdn_versions"}, keep_versions : 1..3, current_version : {"none"}]
    \cup [f : {"cleanup_old_cdn_versions"}, keep_versions : {0},
          current_version : {"0.1.0", "0.3.0", "0.11.0", "v1.20250610_120000"}]
    \cup [f : {"cleanup_non_versioned_cdn_files"}]

InitCdn ==
    /\ impl \in {"pipeline", "ingest_scripts"}
    /\ \/ args \in CheckerArguments /\ cdn = [vercel |-> {}, firebase |-> {}]
       \/ /\ args \in {a \in CleanupArguments :
                          a.f = "cleanup_old_cdn_versions"
                              => (impl = "pipeline" <=> a.current_version = "none")}
          /\ cdn \in {[vercel |-> s, firebase |-> {}] : s \in CleanupStores}
    /\ pc = "call"
    /\ ret = <<>>
    /\ calls = <<>>
    /\ errors = <<>>
    /\ files = [city |-> CityFiles, county |-> CountyFiles]
    /\ layer = NominalLayer
    /\ gdf_len = [city |-> 0, county |-> 0]
    /\ idx = [city |-> 0, county |-> 0]
    /\ last_row = [region |-> "none"]
    /\ results = [city |-> <<>>, county |-> <<>>]
    /\ geometry_data = [city |-> {}, county |-> {}]
    /\ address_stats = InitialStats
    /\ anomaly_log = <<>>
    /\ console = {}
    /\ crs_used = [city |-> "none", county |-> "none"]
    /\ attempted = {}
    /\ row_error = <<>>
    /\ unified = <<>>
    /\ addr_in = ""
    /\ addr_out = <<>>
    /\ batch = <<>>
    /\ order_runs = <<>>
    /\ runs = 1
    /\ index_file = "none"
    /\ validation = <<>>

call_check_cdn_status ==
    /\ args.f = "check_cdn_status"
    /\ Return(check_cdn_status(args.vercel, args.firebase, args.local))

call_analyze_vercel_indexes ==
    /\ args.f = "_analyze_vercel_indexes"
    /\ Return(analyze_vercel_indexes(args.files))

call_analyze_firebase_indexes ==
    /\ args.f = "_analyze_firebase_indexes"
    /\ Return(analyze_firebase_indexes(args.files))

\* a clean-up method lists the store and asks it to delete blobs; the
\* deletes succeed or fail together.  The call returns None; ret keeps what
\* was asked for and what went
Cleanup(asked) ==
    /\ pc = "call"
    /\ \E deleted \in {asked, {}} :
           /\ cdn' = [cdn EXCEPT !.vercel = @ \ deleted]
           /\ ret' = <<[asked |-> asked, deleted |-> deleted]>>
    /\ pc' = "returned"
    /\ UNCHANGED <<impl, files, layer, gdf_len, idx, last_row, results, geometry_data,
                   address_stats, anomaly_log, console, crs_used, attempted, row_error,
                   errors, unified, addr_in, addr_out, batch, order_runs, runs, index_file,
                   validation, args, calls>>

\* cleanup_old_cdn_versions(keep_versions) of ingest_shapes.py
call_cleanup_old_cdn_versions_keep ==
    /\ impl = "pipeline" /\ args.f = "cleanup_old_cdn_versions"
    /\ Cleanup(old_version_files(cdn.vercel, args.keep_versions))

\* cleanup_old_cdn_versions(current_version) of ingest_scripts.py
call_cleanup_old_cdn_versions_current ==
    /\ impl = "ingest_scripts" /\ args.f = "cleanup_old_cdn_versions"
    /\ Cleanup(files_of_old_versions(cdn.vercel, Chars(args.current_version)))

\* cleanup_non_versioned_cdn_files of either pipeline
call_cleanup_non_versioned_cdn_files ==
    /\ args.f = "cleanup_non_versioned_cdn_files"
    /\ Cleanup(non_versioned_and_legacy_files(cdn.vercel))

NextCdn ==
    \/ call_check_cdn_status
    \/ call_analyze_vercel_indexes
    \/ call_analyze_firebase_indexes
    \/ call_cleanup_old_cdn_versions_keep
    \/ call_cleanup_old_cdn_versions_current
    \/ call_cleanup_non_versioned_cdn_files

SpecCdn == InitCdn /\ [][NextCdn]_vars

(***************************************************************************)
(* Properties.                                                             *)
(***************************************************************************)
Regions == {"city", "county"}

\* C1: an exception raised while a row is processed is caught at that row's
\* boundary and the loop goes on with the remaining rows: the step in which
\* a row raises leaves the run where it was, in its row loop, with no
\* pipeline failure recorded.
C1_RowExceptionIsLocal ==
    [][Len(row_error') > Len(row_error)
           => pc' = pc /\ pc' \in {"city_loop", "county_loop"} /\ errors' = errors]_vars

\* C2: a row produces no ParcelRecord if and only if it is rejected as a
\* missing street (missing_city_components for the city, missing_street for
\* the county; the program has no missing_number counter) or as a
\* standardization failure.
C2_RecordUnlessRejected ==
    [][\A region \in Regions :
           idx'[region] = idx[region] + 1
               => ((Len(results'[region]) = Len(results[region]))
                   <=> \E k \in {"missing_city_components", "missing_street",
                                 "standardization_failure"} :
                           address_stats'[k] > address_stats[k])]_vars

\* C3: whenever a row takes the missing-street, invalid-ZIP,
\* standardization-failure or PO-box path (its counter is incremented), an
\* AnomalyRecord of that type is appended for the row in the same step.
C3_CounterAndAnomalyRecord ==
    [][\A k \in {"missing_city_components", "missing_street", "invalid_zip",
                 "standardization_failure", "po_box"} :
           address_stats'[k] > address_stats[k]
               => \E i \in (Len(anomaly_log) + 1)..Len(anomaly_log') :
                      anomaly_log'[i].log_file =
                          CASE k = "invalid_zip" -> "invalid_zip.log"
                            [] k = "standardization_failure" -> "standardization_errors.log"
                            [] k = "po_box" -> "po_box_addresses.log"
                            [] OTHER -> "missing_components.log"]_vars

\* C4: the full_address of every emitted ParcelRecord matches
\* ^.+, .+, [A-Z]{2} \d{5}(-\d{4})?$
C4_FullAddressFormat ==
    \A region \in Regions : \A k \in 1..Len(results[region]) :
        \E zip \in zip_patterns :
            re_fullmatch(<<Re("any", "+")>> \o Lit(", ") \o <<Re("any", "+")>> \o Lit(", ")
                             \o <<Re("upper", "1"), Re("upper", "1"), Re(" ", "1")>> \o zip,
                         Chars(results[region][k].full_address))

\* the raw ZIP the loop of a region reads from a row
raw_zip_of(region, row) ==
    IF region = "city" THEN city_row_values(row).zip_code_raw
    ELSE county_row_values(row).raw_zip

\* C5: when a row whose raw ZIP is missing or invalid yields a record, the
\* ZIP at the end of the record's full_address is a default ZIP of the
\* program ("63102", or "63105" for the county), not the raw value.
C5_DefaultZipSubstituted ==
    [][\A region \in Regions :
           (/\ idx'[region] = idx[region] + 1
            /\ Len(results'[region]) = Len(results[region]) + 1
            /\ ~is_valid_zip(raw_zip_of(region, last_row'.values)))
               => LET address == Chars(results'[region][Len(results'[region])].full_address)
                  IN  \E default \in {"63102", "63105"} :
                          /\ Len(address) >= 6
                          /\ SubSeq(address, Len(address) - 5, Len(address))
                                 = Chars(" " \o default)]_vars

\* C6: every emitted coordinate is WGS84: latitude within [-90, 90] and
\* longitude within [-180, 180] (here in hundredths of a degree), for the
\* centroid of every record and for every vertex and bbox value of every
\* geometry.
C6_CoordinatesAreWGS84 ==
    \A region \in Regions :
        /\ \A k \in 1..Len(results[region]) :
               /\ results[region][k].latitude \in (-9000)..9000
               /\ results[region][k].longitude \in (-18000)..18000
        /\ \A e \in geometry_data[region] :
               e.geometry.type # "null"
                   => /\ \A r \in 1..Len(e.geometry.coordinates) :
                             \A k \in 1..Len(e.geometry.coordinates[r]) :
                                 /\ e.geometry.coordinates[r][k][1] \in (-18000)..18000
                                 /\ e.geometry.coordinates[r][k][2] \in (-9000)..9000
                      /\ e.geometry.bbox[1] \in (-18000)..18000
                      /\ e.geometry.bbox[3] \in (-18000)..18000
                      /\ e.geometry.bbox[2] \in (-9000)..9000
                      /\ e.geometry.bbox[4] \in (-9000)..9000

\* C7: a row whose geometry cannot be extracted (missing, empty or not a
\* polygon) gets a null geometry and is still processed: when its address is
\* valid, its ParcelRecord is emitted.
C7_NullGeometryRowStillEmitted ==
    [][\A region \in Regions :
           (/\ idx'[region] = idx[region] + 1
            /\ extract_parcel_geometry(last_row'.values.geometry) = NullGeometry
            /\ address_stats'.valid_addresses > address_stats.valid_addresses)
               => /\ Len(results'[region]) = Len(results[region]) + 1
                  /\ \E e \in geometry_data'[region] : e.geometry = NullGeometry]_vars

\* the input CRS the fallback chain gives for a layer: the declared CRS, else
\* the CRS of the sidecar .prj file, else the first matching entry of the
\* coordinate-range table (or its default)
crs_chain(l) ==
    IF l.declared # "none" THEN l.declared
    ELSE IF l.prj \notin {"absent", "corrupt"} THEN l.prj
    ELSE crs_from_range(l.range).crs

\* C8: a region whose files are all present is read with the CRS of the
\* fallback chain, whether or not the layer declares one, and an undeclared
\* CRS is reported on the console.
C8_CrsFallbackChain ==
    \A region \in attempted :
        files[region] = (IF region = "city" THEN CityFiles ELSE CountyFiles)
            => /\ crs_used[region] = crs_chain(layer[region])
               /\ layer[region].declared = "none"
                      => \E message \in console :
                             message \in {region \o ": no CRS found in shapefile",
                                          region \o ": setting default CRS"}

\* C9: when a region lacks one of its source files, a finished run has
\* attempted both regions and holds no records for the region that lacks
\* the file.
C9_MissingFilesFatalForRegionOnly ==
    (/\ pc = "done"
     /\ \E region \in Regions : files[region] # (IF region = "city" THEN CityFiles ELSE CountyFiles))
        => /\ attempted = Regions
           /\ \A region \in Regions :
                  files[region] # (IF region = "city" THEN CityFiles ELSE CountyFiles)
                      => results[region] = <<>>

\* C10: standardize_address is idempotent: applied to its own output it
\* returns that output.
C10_StandardizeAddressIdempotent ==
    Len(addr_out) = 2 => addr_out[2] = addr_out[1]

\* C11: rows are processed independently of their order: when the same table
\* is processed in its order and in the reverse order, and no row raises in
\* either pass, both passes leave the same set of ParcelRecords, the same
\* geometry map and the same counters.
C11_RowOrderIrrelevant ==
    (Len(order_runs) = 2 /\ ~order_runs[1].raised /\ ~order_runs[2].raised)
        => order_runs[1] = order_runs[2]

\* C12: the counters are created fresh for each run: whenever a run of the
\* pipeline starts, every counter is zero.
C12_StatsFreshPerRun ==
    pc = "main" => \A k \in DOMAIN address_stats : address_stats[k] = 0

\* C13: every address-index file a run emits conforms to the schema of the
\* validator, so the validator reports it valid.
C13_EmittedIndexIsValid ==
    (validation # <<>> /\ results.city \o results.county # <<>>) => validation[1].valid

\* the entries of addresses in the file on disk
addresses_on_disk == index_file.items.addresses.items

\* the file on disk has the two top-level parts and a count to compare
has_count ==
    /\ pc = "done" /\ validation # <<>>
    /\ index_file.t = "dict"
    /\ {"addresses", "metadata"} \subseteq DOMAIN index_file.items
    /\ index_file.items.addresses.t = "list"
    /\ index_file.items.metadata.t = "dict"
    /\ "total_addresses" \in DOMAIN index_file.items.metadata.items

\* C14: in every address-index file _create_unified_indexes writes,
\* metadata.total_addresses is the number of entries of addresses; and the
\* validator reports a file in which the two differ invalid.
C14_TotalAddressesMatches ==
    /\ (impl = "ingest_scripts" /\ pc \in {"validate", "done"}
            /\ results.city \o results.county # <<>>)
           => index_file.items.metadata.items.total_addresses
                  = Py("int", Len(addresses_on_disk))
    /\ (has_count /\ index_file.items.metadata.items.total_addresses
                         # Py("int", Len(addresses_on_disk)))
           => ~validation[1].valid

\* an index of two entries was written and validated
C14_Witness ==
    /\ impl = "ingest_scripts" /\ pc = "done" /\ validation # <<>>
    /\ Len(results.city \o results.county) = 2
    /\ Len(addresses_on_disk) = 2

\* the validator's message for a coordinate of entry k of the file
coordinate_message(k, field) ==
    {validation[1].errors[i].error :
        i \in {i \in 1..Len(validation[1].errors) :
                  validation[1].errors[i].where = k - 1
                  /\ validation[1].errors[i].field = field}}

\* C15: for a latitude or longitude whose absolute value exceeds 1000
\* degrees the validator reports the still-projected error for that record,
\* not the generic out-of-range error.
C15_ProjectedCoordinatesReported ==
    has_count =>
        \A k \in 1..Len(addresses_on_disk) : \A field \in {"latitude", "longitude"} :
            (/\ k <= 100
             /\ addresses_on_disk[k].t = "dict"
             /\ field \in DOMAIN addresses_on_disk[k].items
             /\ addresses_on_disk[k].items[field].t \in {"int", "float"}
             /\ (addresses_on_disk[k].items[field].n > 1000 * 100
                 \/ addresses_on_disk[k].items[field].n < -(1000 * 100)))
                => coordinate_message(k, field) = {"appears to be projected coordinates"}

\* C16: the validator reports a file valid only if every entry of addresses,
\* whatever its position, has a latitude within [-90, 90] and a longitude
\* within [-180, 180].
C16_ValidOnlyIfCoordinatesInRange ==
    (has_count /\ validation[1].valid) =>
        \A k \in 1..Len(addresses_on_disk) :
            /\ addresses_on_disk[k].t = "dict"
            /\ {"latitude", "longitude"} \subseteq DOMAIN addresses_on_disk[k].items
            /\ addresses_on_disk[k].items.latitude.t \in {"int", "float"}
            /\ addresses_on_disk[k].items.latitude.n \in (-(90 * 100))..(90 * 100)
            /\ addresses_on_disk[k].items.longitude.t \in {"int", "float"}
            /\ addresses_on_disk[k].items.longitude.n \in (-(180 * 100))..(180 * 100)

\* C17: for every land_area >= 0, any building_sqft and any property type,
\* calculate_landscapable_area returns r with 0 <= r <= land_area.
C17_LandscapableWithinLot ==
    (/\ pc = "returned" /\ args.f = "calculate_landscapable_area"
     /\ num_le(Num(0), args.land_area))
        => /\ ~ret[1].nan
           /\ 0 <= ret[1].v
           /\ ret[1].v <= args.land_area.v

\* C18: the affluence score of every record a row loop or a mock generator
\* emits lies within 0 and 5 (0..500 hundredths).
C18_AffluenceScoreInRange ==
    /\ \A region \in {"city", "county"} : \A k \in 1..Len(results[region]) :
           results[region][k].affluence_score \in 0..500
    /\ (pc = "returned" /\ args.f \in {"process_row", "create_mock_data"})
           => \A k \in 1..Len(ret[1]) : ret[1][k].affluence_score \in 0..500

\* a row whose points add up to more than 5 left a record with the score 5
C18_Witness ==
    /\ pc = "returned" /\ args.f = "process_row"
    /\ args.row.geometry.area = Num(5000)
    /\ Len(ret[1]) = 1
    /\ affluence_score_before_normalizing(
           [landarea |-> ret[1][1].calc.landarea_sqft,
            building_sqft |-> ret[1][1].calc.building_sqft] @@ args.row, args.region) > 500
    /\ ret[1][1].affluence_score = 500

\* the text between the first and the last character that is not a blank
without_outer_blanks(cs) ==
    LET inked == {i \in 1..Len(cs) : cs[i] # " "}
    IN  IF inked = {} THEN <<>>
        ELSE SubSeq(cs, CHOOSE i \in inked : \A j \in inked : i <= j,
                        CHOOSE i \in inked : \A j \in inked : j <= i)

\* five digits, or five digits, a hyphen and four digits
zip_shaped(cs) ==
    /\ Len(cs) \in {5, 10}
    /\ \A i \in 1..5 : cs[i] \in CharClass.digit
    /\ Len(cs) = 10 => (cs[6] = "-" /\ \A i \in 7..10 : cs[i] \in CharClass.digit)

\* C19 (as the code has it): is_valid_zip(z) is true if and only if z is a
\* string which, once the blanks around it are removed, is five digits or
\* five digits, a hyphen and four digits; a value that is not a string
\* is rejected.
C19_ValidZipAfterStrip ==
    (pc = "returned" /\ args.f = "is_valid_zip")
        => (ret[1] <=> (/\ args.value.t = "str"
                        /\ zip_shaped(without_outer_blanks(Chars(args.value.s)))))

\* C19 (as stated): is_valid_zip(z) is true if and only if z is a string
\* that matches ^\d{5}(-\d{4})?$ exactly; a padded value is rejected.
C19_ValidZipExactly ==
    (pc = "returned" /\ args.f = "is_valid_zip")
        => (ret[1] <=> (args.value.t = "str" /\ zip_shaped(Chars(args.value.s))))

\* a ZIP with a blank on either side was accepted
C19_Witness ==
    /\ pc = "returned" /\ args.f = "is_valid_zip"
    /\ args.value.t = "str" /\ args.value.s = " 12345 "
    /\ ret[1]

\* whether ds occurs in cs at position i
occurs_at(cs, i, ds) ==
    i + Len(ds) - 1 <= Len(cs) /\ SubSeq(cs, i, i + Len(ds) - 1) = ds

\* a PO-box designator somewhere in the text, whatever its case: P.O. BOX,
\* PO BOX, or BOX or PMB followed by a blank and a digit
has_po_box_designator(text) ==
    LET cs == upper(text)
    IN  \E i \in 1..Len(cs) :
            \/ occurs_at(cs, i, Chars("P.O. BOX"))
            \/ occurs_at(cs, i, Chars("PO BOX"))
            \/ \E word \in {"BOX ", "PMB "} :
                   /\ occurs_at(cs, i, Chars(word))
                   /\ i + 4 <= Len(cs) /\ cs[i + 4] \in CharClass.digit

\* C20: is_po_box of the scripts returns true for every string that holds a
\* PO-box designator, "P.O. BOX 1234" among them, and false for a string
\* with none and for a value that is not a string.
C20_PoBoxDetected ==
    (pc = "returned" /\ args.f = "is_po_box" /\ impl = "data")
        => (ret[1] <=> (/\ args.value.t = "str"
                        /\ has_po_box_designator(Chars(args.value.s))))

\* the column FIELD_MAPPINGS holds for region, category and field, if any
mapped_columns(region, category, field) ==
    {column \in {"ASMTTOTAL", "ZIP", "TOTAPVAL", "PROP_ZIP", "TENURE", "PROP_ADD"} :
        /\ region \in DOMAIN FIELD_MAPPINGS
        /\ category \in DOMAIN FIELD_MAPPINGS[region]
        /\ field \in DOMAIN FIELD_MAPPINGS[region][category]
        /\ FIELD_MAPPINGS[region][category][field] = column}

\* C21: get_field_value never raises; it returns the row's value for the
\* mapped column, and default whenever the mapping or the row key is absent.
C21_GetFieldNeverRaises ==
    (pc = "returned" /\ args.f = "get_field_value")
        => /\ ret[1].raised = ""
           /\ \A column \in mapped_columns(args.region, args.category, args.field) :
                  column \in DOMAIN args.row => ret[1].value = args.row[column]
           /\ (\A column \in mapped_columns(args.region, args.category, args.field) :
                  column \notin DOMAIN args.row) => ret[1].value = args.default

\* a category that is a bare column name was subscripted and default came back
C21_Witness ==
    /\ pc = "returned" /\ args.f = "get_field_value"
    /\ args.region = "county" /\ args.category = "property_class"
    /\ "PROPCLASS" \in DOMAIN args.row
    /\ ret[1] = [raised |-> "", value |-> args.default]

\* the token at the loop index is digits followed by ST, ND, RD or TH
ordinal_token(word) ==
    /\ Len(word) >= 3
    /\ \A k \in 1..(Len(word) - 2) : word[k] \in CharClass.digit
    /\ Str(SubSeq(word, Len(word) - 1, Len(word))) \in {"ST", "ND", "RD", "TH"}

\* the token after the loop index is a key of street_type_map
street_type_follows(street_words, i) ==
    /\ i < Len(street_words)
    /\ \E type \in DOMAIN street_type_map :
           street_words[i + 1] \in {Chars(type), Chars(type) \o <<".">>,
                                    [k \in 1..Len(type) |-> Recase(Chars(type)[k], Alphabet.upper,
                                                                   Alphabet.lower)]}

\* C22: an ordinal token (digits followed by ST, ND, RD or TH) is rendered
\* as the ordinal alone when the next token is a street-type word, and
\* otherwise as the ordinal fused with "St.".
C22_OrdinalFusedWithStreet ==
    (/\ pc = "returned" /\ args.f = "standardize_street_word"
     /\ ordinal_token(args.street_words[args.i]))
        => ret[1] = [k \in 1..Len(args.street_words[args.i]) |->
                        Recase(args.street_words[args.i][k], Alphabet.upper, Alphabet.lower)]
                    \o (IF street_type_follows(args.street_words, args.i)
                        THEN <<>> ELSE Chars(" St."))

\* the counters of one region agree with the records its processing returned
region_counters_agree(region) ==
    /\ Len(results[region]) = address_stats[region \o "_records_valid"]
    /\ address_stats[region \o "_records_valid"] <= address_stats[region \o "_records_processed"]
    /\ address_stats.valid_addresses =
           address_stats.city_records_valid + address_stats.county_records_valid

\* C23: at the end of every region's processing the number of records
\* emitted for the region equals the region's valid counter, the valid
\* counter does not exceed the processed counter, and valid_addresses is
\* city_records_valid + county_records_valid.
C23_CountersMatchRecords ==
    /\ pc = "county" => region_counters_agree("city")
    /\ pc \in {"unify", "indexes"} => region_counters_agree("county")

\* the positions of a run at which one of the actions calls a method
calling_positions ==
    IF impl = "pipeline"
    THEN {"try", "step_1", "step_2", "step_3", "step_4", "finally", "report"}
    ELSE {"try", "verify_existing", "sync", "critical", "rebuild", "step_1", "step_3",
          "step_4", "verify_final", "finally", "report"}

\* how often a method occurs in calls
times_called(method) == Cardinality({k \in 1..Len(calls) : calls[k].method = method})

\* C24: every invocation of run_intelligent_pipeline ends by running
\* step_5_cleanup and then generate_report, exactly once each, whether the
\* body succeeded, raised or returned early: a run that has not returned
\* is at a position where a method is called next, and a run that has
\* returned made these two calls last, in this order, and neither before.
C24_EndsWithCleanupThenReport ==
    /\ pc # "returned" => pc \in calling_positions
    /\ pc = "returned"
           => /\ Len(calls) >= 2
              /\ calls[Len(calls) - 1].method = "step_5_cleanup"
              /\ calls[Len(calls)].method = "generate_report"
              /\ times_called("step_5_cleanup") = 1
              /\ times_called("generate_report") = 1

\* a run whose body raised, and one that returned early, are over
C24_Witness ==
    /\ pc = "returned"
    /\ \E k \in 1..Len(calls) : calls[k].result = "raised" \/ calls[k].method = "_handle_critical_failure"

\* C25: in a full rebuild files are uploaded under cdn/ only if the
\* FlexSearch build step reported success and the dataset size is large; a
\* run with dataset size small or medium uploads and deletes nothing under
\* cdn/.
C25_UploadsOnlyForLargeDataset ==
    \A k \in 1..Len(calls) :
        (calls[k].uploaded # {} \/ calls[k].deleted # {})
            => /\ args.dataset_size = "large"
               /\ result_of("step_3_build_flexsearch_indexes") = "True"


\* the recommendation the priority order gives
first_applicable(vercel, firebase, local) ==
    IF ~vercel.raised /\ analyze_vercel_indexes(vercel.files).complete_set
    THEN "use_vercel"
    ELSE IF ~firebase.raised /\ analyze_firebase_indexes(firebase.files).complete_set
    THEN "use_firebase"
    ELSE IF \A region \in {"city", "county"} : \A ext \in {"shp", "dbf"} : ext \in local[region]
    THEN "rebuild_from_local"
    ELSE "critical_failure"

\* C26: check_cdn_status returns the first applicable recommendation in the
\* order use_vercel (Vercel reachable with a complete index set),
\* use_firebase (Firebase reachable with a complete set), rebuild_from_local
\* (the local shapefiles of both regions present), critical_failure; it never
\* returns the initial build_all, and needs_rebuild is false exactly when the
\* recommendation is use_vercel or use_firebase.
C26_FirstApplicableRecommendation ==
    (pc = "returned" /\ args.f = "check_cdn_status")
        => /\ ret[1].recommendation = first_applicable(args.vercel, args.firebase, args.local)
           /\ ret[1].recommendation # "build_all"
           /\ ~ret[1].needs_rebuild <=> ret[1].recommendation \in {"use_vercel", "use_firebase"}

\* Vercel answered without a complete set and Firebase had one
C26_Witness ==
    /\ pc = "returned" /\ args.f = "check_cdn_status"
    /\ ~args.vercel.raised /\ args.vercel.files # {}
    /\ ret[1].recommendation = "use_firebase"


\* the numbers in a version, in order: v0.10.0 is <<0, 10, 0>>
version_numbers(version) ==
    LET digit(i) == version[i] \in CharClass.digit
        starts == {i \in 1..Len(version) : digit(i) /\ (i = 1 \/ ~digit(i - 1))}
        start(k) == CHOOSE i \in starts : Cardinality({j \in starts : j < i}) = k - 1
        end(i) == CHOOSE j \in i..Len(version) :
                      /\ \A m \in i..j : digit(m)
                      /\ (j = Len(version) \/ ~digit(j + 1))
    IN  [k \in 1..Cardinality(starts) |-> int(SubSeq(version, start(k), end(start(k))))]

\* version order: the numbers of the versions compared from the left
version_order_lt(v, w) ==
    LET a == version_numbers(v)
        b == version_numbers(w)
    IN  \/ \E k \in 1..Len(a) :
               /\ k <= Len(b)
               /\ \A m \in 1..(k - 1) : a[m] = b[m]
               /\ a[k] < b[k]
        \/ Len(a) < Len(b) /\ \A m \in 1..Len(a) : a[m] = b[m]

\* the versions of which a listing holds all three index types
versions_with_all_indexes(file_list) ==
    {v \in {e.version : e \in versioned_entries(file_list)} :
        \A k \in 1..3 :
            \E f \in file_list :
                clean_filename(f) = Chars(index_names[k] \o "-") \o v \o Chars(".json.gz")}

\* C27: the index analysis reports as latest_version the highest version, in
\* version order, among the versions for which all three index types are
\* present, and reports complete_set only when such a version exists.
C27_LatestCompleteVersion ==
    (pc = "returned" /\ args.f \in {"_analyze_vercel_indexes", "_analyze_firebase_indexes"})
        => LET complete == versions_with_all_indexes(args.files)
           IN  /\ ret[1].complete_set => complete # {}
               /\ complete # {}
                      => /\ Len(ret[1].latest_version) = 1
                         /\ ret[1].latest_version[1] \in complete
                         /\ \A w \in complete : ~version_order_lt(ret[1].latest_version[1], w)


\* the version in a name step 4 of ingest_shapes.py uploads,
\* <base>-v<YYYYMMDD>-<hash>.json.gz, in a one-element sequence; <<>> for
\* another name
uploaded_version(pathname) ==
    LET starts == {i \in 1..(Len(pathname) - 1) :
                      /\ SubSeq(pathname, i, i + 1) = Chars("-v")
                      /\ (Len(pathname) + 1) \in
                             MatchEnds(pathname, i + 2,
                                       Times("digit", 8) \o Lit("-") \o Times("word", 8)
                                           \o Lit(".json.gz"))}
    IN  IF starts = {} THEN <<>>
        ELSE <<SubSeq(pathname, SetMin(starts) + 2, Len(pathname) - 8)>>

\* C28: after cleanup_old_cdn_versions(keep_versions=N) has run following an
\* upload, with all deletions succeeding, only the files of the N latest
\* versions remain among the versioned files the pipeline uploaded under
\* cdn/, and no file of one of those N latest versions is deleted.
C28_KeepsLatestVersions ==
    (/\ pc = "returned" /\ impl = "pipeline" /\ args.f = "cleanup_old_cdn_versions"
     /\ ret[1].deleted = ret[1].asked)
        => LET uploaded == {f \in cdn.vercel \cup ret[1].deleted : uploaded_version(f) # <<>>}
               versions == {uploaded_version(f)[1] : f \in uploaded}
               latest == {v \in versions :
                             Cardinality({w \in versions : str_lt(v, w)}) < args.keep_versions}
           IN  {f \in uploaded : f \in cdn.vercel}
                   = {f \in uploaded : uploaded_version(f)[1] \in latest}


\* a version written with its leading v
with_v(version) ==
    IF version # <<>> /\ version[1] = "v" THEN version ELSE <<"v">> \o version

\* the versions of which a store holds an index file
versions_in(store) == {e.version : e \in versioned_entries(store)}

\* C29: cleanup_old_cdn_versions(current_version) keeps only the current and
\* the previous CDN version: it never deletes a file of current_version, and
\* afterwards, the deletions having succeeded, the remaining versions are the
\* current one and the one before it.
C29_KeepsCurrentAndPrevious ==
    (/\ pc = "returned" /\ impl = "ingest_scripts" /\ args.f = "cleanup_old_cdn_versions"
     /\ ret[1].deleted = ret[1].asked)
        => LET current == with_v(Chars(args.current_version))
               before == versions_in(cdn.vercel \cup ret[1].deleted)
               earlier == {v \in before : version_order_lt(v, current)}
               previous == {v \in earlier : \A w \in earlier : ~version_order_lt(v, w)}
           IN  /\ \A e \in versioned_entries(ret[1].deleted) : e.version # current
               /\ versions_in(cdn.vercel) \subseteq ({current} \cup previous)


\* C30: cleanup_non_versioned_cdn_files never deletes version-manifest.json
\* or a versioned index file: every file under cdn/ that the CDN status
\* checker counts as part of a versioned index set (name-v<version>.json.gz,
\* timestamp-style versions included) is still present after the clean-up.
C30_VersionedFilesSurvive ==
    (pc = "returned" /\ args.f = "cleanup_non_versioned_cdn_files")
        => LET before == cdn.vercel \cup ret[1].deleted
           IN  \A f \in before :
                   (\/ f = version_manifest
                    \/ f \in {e.pathname : e \in versioned_entries(before)})
                       => f \in cdn.vercel

====
